---- MODULE Spec2Model ----
(***************************************************************************)
(* A model of the wellenbrecher Pixelflut server: the per-connection       *)
(* CommandRing and its streaming parser, command execution against the     *)
(* shared canvas, and the connection handler's read completion.            *)
(*                                                                         *)
(* Bytes are one-character strings.  Pointers into the CommandRing are     *)
(* offsets from `ptr` (so `end` is `len`).  u32 arithmetic keeps its width.*)
(***************************************************************************)
EXTENDS Integers, Sequences, FiniteSets, TLC

VARIABLES
    ring,       \* SpecRing: the CommandRing under test
    pending,    \* SpecRing: bytes of the peer's stream not yet read from the socket
    fed,        \* SpecRing: bytes of the stream already written into the ring
    start,      \* SpecRing: offset of read/write when the stream began
    cmds,       \* SpecRing: commands read_next_command has returned so far
    last,       \* SpecRing: outcome of the latest read_next_command call
    resumed,    \* SpecRing: a write arrived while a partial command was buffered
    bytewise,   \* SpecRing: every write so far was a single byte
    pc,         \* SpecRing: "read" (a Read is in flight), "parse" (parse loop), "closed"
    canvas,     \* SpecConn, SpecCanvas: the shared canvas
    conns,      \* SpecConn: the lackey's connections
    log,        \* SpecConn: per connection, the commands executed and what each pushed
    batch,      \* SpecConn: the latest completion handled and what it pushed
    access,     \* SpecCanvas: the latest canvas access and its outcome
    users,      \* SpecUsers, SpecShutdown: the client vector and the UserStates allocated
    dispatch,   \* SpecUsers: the empress between get_or_create_user_state and fetch_add
    holders,    \* SpecUsers: per accepted socket, the NewClient or Connection holding a UserState
    uhist,      \* SpecUsers: the latest get_or_create_user_state call and what it replaced
    uring,      \* SpecShutdown: per ring, the submission and completion queue
    run,        \* SpecShutdown: per ring, where Ring::run is
    kernel,     \* SpecShutdown: the operations in flight, the signals, the clock
    heap,       \* SpecShutdown: the Box<UserData> allocations, live or freed
    coord,      \* SpecShutdown: the fields of RingCoordination::Empress
    socks,      \* SpecShutdown: per accepted socket, who owns it
    proc,       \* SpecShutdown: "running", or how the process ended
    hist,       \* SpecShutdown: what has happened so far
    naive,      \* SpecNaive: the data fed to NaiveParser and what feed returned
    region,     \* SpecRegion: the canvas size asked for and what Canvas::open computed
    race        \* SpecRace: two rings inside set_pixel on one pixel

ringVars == <<ring, pending, fed, start, cmds, last, resumed, bytewise, pc>>
connVars == <<conns, log, batch>>
userVars == <<users, dispatch, holders, uhist>>
coordVars == <<uring, run, kernel, heap, coord, socks, proc, hist>>
naiveVars == <<naive>>
pureVars == <<naiveVars, region, race>>
vars ==
    <<ringVars, canvas, connVars, access, userVars, coordVars, pureVars>>

\* the value of a variable a specification does not use
Unused == <<>>

UsersUnused ==
    /\ users = Unused /\ dispatch = Unused /\ holders = Unused
    /\ uhist = Unused

CoordUnused ==
    /\ uring = Unused /\ run = Unused /\ kernel = Unused /\ heap = Unused
    /\ coord = Unused /\ socks = Unused /\ proc = Unused /\ hist = Unused

NaiveUnused == naive = Unused

RegionUnused == region = Unused

RaceUnused == race = Unused

PureUnused == NaiveUnused /\ RegionUnused /\ RaceUnused

----------------------------------------------------------------------------
(* Bounds of the model *)

\* capacity of the large CommandRing (--buffer, scaled down)
MaxRingLen == 30
\* capacity of the small CommandRing, which a single command can fill
MinRingLen == 8
\* the wrapping start offset is len - WrapMargin
WrapMargin == 3
\* command lines per stream
MaxCmds == 2
\* colour digits tried in a PX set command
MaxColorDigits == 10
\* canvas size (--width, --height, scaled down)
CanvasWidth == 3
CanvasHeight == 2
\* a peer's bytes arrive whole or cut after this many
ChunkLen == 4
\* repetitions of SIZE or HELP in one batch
MaxRepeat == 3
\* set_pixel calls in one run of SpecCanvas
MaxSets == 2

----------------------------------------------------------------------------
(* command_ring.rs: constants *)

HELP_VERB == <<"H", "E", "L", "P", "\n">>
SIZE_VERB == <<"S", "I", "Z", "E", "\n">>
PX_VERB == <<"P", "X">>
OFFSET_VERB == <<"O", "F", "F", "S", "E", "T">>

INVALID_HEX_DIGIT == 65535

hex_lookup(c) ==
    CASE c = "0" -> 0 [] c = "1" -> 1 [] c = "2" -> 2 [] c = "3" -> 3
      [] c = "4" -> 4 [] c = "5" -> 5 [] c = "6" -> 6 [] c = "7" -> 7
      [] c = "8" -> 8 [] c = "9" -> 9
      [] c = "a" -> 10 [] c = "b" -> 11 [] c = "c" -> 12
      [] c = "d" -> 13 [] c = "e" -> 14 [] c = "f" -> 15
      [] c = "A" -> 10 [] c = "B" -> 11 [] c = "C" -> 12
      [] c = "D" -> 13 [] c = "E" -> 14 [] c = "F" -> 15
      [] OTHER -> INVALID_HEX_DIGIT

----------------------------------------------------------------------------
(* u32 values that may use all 32 bits are kept as two 16-bit halves,      *)
(* [hi, lo] for hi * 2^16 + lo, so that the arithmetic keeps its width     *)

u32(hi, lo) == [hi |-> hi, lo |-> lo]

\* (value * 10) + digit, wrapping at 2^32
u32_mul10_add(value, digit) ==
    LET lo == value.lo * 10 + digit
    IN  u32((value.hi * 10 + lo \div 65536) % 65536, lo % 65536)

\* (value << 4) + digit, for digit < 16
u32_shl4_add(value, digit) ==
    u32((value.hi * 16 + value.lo \div 4096) % 65536,
        ((value.lo * 16) % 65536) + digit)

\* a u32 as a number, for the values below 2^31
u32_to_int(value) == value.hi * 65536 + value.lo

----------------------------------------------------------------------------
(* wellenbrecher-canvas: Bgra *)

from_rgba(value) ==
    [r |-> value.hi \div 256, g |-> value.hi % 256,
     b |-> value.lo \div 256, a |-> value.lo % 256]

from_bw(bw) == [r |-> bw, g |-> bw, b |-> bw, a |-> 255]

from_rgb(rgb) ==
    [r |-> rgb.hi % 256, g |-> rgb.lo \div 256, b |-> rgb.lo % 256, a |-> 255]

\* an 8-digit colour read as rrggbbaa
from_argb_as_rgba(value) ==
    [r |-> value.hi \div 256, g |-> value.hi % 256,
     b |-> value.lo \div 256, a |-> value.lo % 256]

from_argb(value) ==
    [a |-> value.hi \div 256, r |-> value.hi % 256,
     g |-> value.lo \div 256, b |-> value.lo % 256]

\* impl From<u32> for Bgra
Bgra_from_u32(value) ==
    [b |-> value.hi \div 256, g |-> value.hi % 256,
     r |-> value.lo \div 256, a |-> value.lo % 256]

\* impl From<Bgra> for u32
u32_from_Bgra(value) ==
    u32(value.b * 256 + value.g, value.r * 256 + value.a)

Bgra_default == Bgra_from_u32(u32(0, 0))

Bgra_rgb(c) == c.r * 65536 + c.g * 256 + c.b

----------------------------------------------------------------------------
(* command_ring.rs: CommandRing *)

\* the content of a buffer byte nothing was written to yet; no operation
\* reads such a byte before it is written
Unwritten == "?"

CommandRing_new(size) ==
    [len |-> size, buf |-> [i \in 0..(size - 1) |-> Unwritten],
     read |-> 0, write |-> 0, last_op |-> "Read"]

advance_read_unchecked(r, offset) ==
    [r EXCEPT !.read = (r.read + offset) % r.len, !.last_op = "Read"]

increment_read_unchecked(r) ==
    [r EXCEPT !.read = IF r.read + 1 = r.len THEN 0 ELSE r.read + 1,
              !.last_op = "Read"]

advance_write_unchecked(r, offset) ==
    [r EXCEPT !.write = (r.write + offset) % r.len, !.last_op = "Write"]

\* the length of the window contig_write returns (its pointer is r.write)
contig_write(r) ==
    LET len == r.read - r.write
    IN  IF len < 0 THEN r.len - r.write
        ELSE IF len = 0
             THEN (IF r.last_op = "Read" THEN r.len - r.write ELSE 0)
             ELSE len

contig_read(r) ==
    LET len == r.write - r.read
    IN  IF len < 0 THEN r.len - r.read
        ELSE IF len = 0
             THEN (IF r.last_op = "Read" THEN 0 ELSE r.len - r.read)
             ELSE len

available_to_read(r) ==
    LET n == r.write - r.read
    IN  IF n < 0 THEN r.len + n
        ELSE IF n = 0
             THEN (IF r.last_op = "Read" THEN 0 ELSE r.len)
             ELSE n

\* results of the parser's steps: err is "Ok" or the CommandRingError
Fail(e, r) == [err |-> e, ring |-> r]

\* a consume_compare that answers "no match" when too few bytes are buffered
consume_compare_eager(r, other) ==
    LET other_len == Len(other)
    IN  IF contig_read(r) >= other_len
           /\ \A i \in 1..other_len : r.buf[r.read + i - 1] = other[i]
        THEN [err |-> "Ok", hit |-> TRUE,
              ring |-> advance_read_unchecked(r, other_len)]
        ELSE [err |-> "Ok", hit |-> FALSE, ring |-> r]

consume_compare(r, other) ==
    LET other_len == Len(other)
        a == r.len - r.read
    IN  IF contig_read(r) >= other_len
        THEN IF \A i \in 1..other_len : r.buf[r.read + i - 1] = other[i]
             THEN [err |-> "Ok", hit |-> TRUE,
                   ring |-> advance_read_unchecked(r, other_len)]
             ELSE [err |-> "Ok", hit |-> FALSE, ring |-> r]
        ELSE IF available_to_read(r) >= other_len
        THEN IF \E i \in 1..a : r.buf[r.read + i - 1] # other[i]
             THEN [err |-> "Ok", hit |-> FALSE, ring |-> r]
             ELSE IF \E i \in 1..(other_len - a) : r.buf[i - 1] # other[a + i]
             THEN [err |-> "Ok", hit |-> FALSE, ring |-> r]
             ELSE [err |-> "Ok", hit |-> TRUE,
                   ring |-> advance_read_unchecked(r, other_len)]
        ELSE [err |-> "MoreDataRequired", hit |-> FALSE, ring |-> r]

RECURSIVE consume_whitespace_loop(_)
consume_whitespace_loop(r) ==
    IF r.buf[r.read] = " "
    THEN LET r1 == increment_read_unchecked(r)
         IN  IF r1.read = r1.write
             THEN Fail("MoreDataRequired", r1)
             ELSE consume_whitespace_loop(r1)
    ELSE Fail("Ok", r)

consume_whitespace(r) ==
    IF available_to_read(r) = 0
    THEN Fail("MoreDataRequired", r)
    ELSE consume_whitespace_loop(r)

RECURSIVE consume_decimal_u32_loop(_, _, _)
consume_decimal_u32_loop(r, value, terminators) ==
    IF r.read = r.write
    THEN [err |-> "MoreDataRequired", value |-> value, digit |-> "", ring |-> r]
    ELSE LET digit == r.buf[r.read]
             r1 == increment_read_unchecked(r)
         IN  IF digit \in terminators
             THEN [err |-> "Ok", value |-> value, digit |-> digit, ring |-> r1]
             ELSE IF hex_lookup(digit) = INVALID_HEX_DIGIT
             THEN [err |-> "InvalidDecimalDigit", value |-> value,
                   digit |-> digit, ring |-> r1]
             ELSE consume_decimal_u32_loop(
                      r1, u32_mul10_add(value, hex_lookup(digit)), terminators)

consume_decimal_u32_until(r, terminators) ==
    IF available_to_read(r) = 0
    THEN [err |-> "MoreDataRequired", value |-> u32(0, 0), digit |-> "",
          ring |-> r]
    ELSE consume_decimal_u32_loop(r, u32(0, 0), terminators)

consume_decimal_u32_until_whitespace(r) ==
    consume_decimal_u32_until(r, {" "})

consume_decimal_u32_until_new_line(r) ==
    consume_decimal_u32_until(r, {"\n"})

consume_decimal_u32_until_whitespace_or_new_line(r) ==
    consume_decimal_u32_until(r, {" ", "\n"})

ColorResult(e, c, r) == [err |-> e, color |-> c, ring |-> r]

\* a length rule that also takes 4 digits, as RGBA
color_of_length_lax(len, value, r) ==
    CASE len = 6 -> ColorResult("Ok", from_rgb(value), r)
      [] len = 2 -> ColorResult("Ok", from_bw(value.lo % 256), r)
      [] len = 8 -> ColorResult("Ok", from_rgba(value), r)
      [] len = 4 -> ColorResult("Ok", from_rgba(value), r)
      [] OTHER -> ColorResult("InvalidColor", Bgra_default, r)

\* the colour a line of `len` digits with value `value` denotes
color_of_length(len, value, r) ==
    CASE len = 6 -> ColorResult("Ok", from_rgb(value), r)
      [] len = 2 -> ColorResult("Ok", from_bw(value.lo % 256), r)
      [] len = 8 -> ColorResult("Ok", from_rgba(value), r)
      [] OTHER -> ColorResult("InvalidColor", Bgra_default, r)

RECURSIVE consume_hexadecimal_color_loop(_, _, _)
consume_hexadecimal_color_loop(r, value, len) ==
    IF len = 9
    THEN ColorResult("InvalidColor", Bgra_default, r)
    ELSE IF r.read = r.write
    THEN ColorResult("MoreDataRequired", Bgra_default, r)
    ELSE LET chr == r.buf[r.read]
             r1 == increment_read_unchecked(r)
         IN  IF chr = "\n"
             THEN color_of_length(len, value, r1)
             ELSE IF hex_lookup(chr) = INVALID_HEX_DIGIT
             THEN ColorResult("InvalidHexadecimalDigit", Bgra_default, r1)
             ELSE consume_hexadecimal_color_loop(
                      r1, u32_shl4_add(value, hex_lookup(chr)), len + 1)

consume_hexadecimal_color_until_new_line(r) ==
    IF available_to_read(r) = 0
    THEN ColorResult("MoreDataRequired", Bgra_default, r)
    ELSE consume_hexadecimal_color_loop(r, u32(0, 0), 0)

----------------------------------------------------------------------------
(* command.rs: Command *)

Help == [type |-> "Help"]
Size == [type |-> "Size"]
SetPixel(x, y, color) == [type |-> "SetPixel", x |-> x, y |-> y, color |-> color]
GetPixel(x, y) == [type |-> "GetPixel", x |-> x, y |-> y]
Offset(x, y) == [type |-> "Offset", x |-> x, y |-> y]
NoCommand == [type |-> "None"]

CmdResult(e, c, r) == [err |-> e, cmd |-> c, ring |-> r]

\* the PX branch of read_next_command_inner, after the verb matched
read_px(r) ==
    LET w1 == consume_whitespace(r) IN
    IF w1.err # "Ok" THEN CmdResult(w1.err, NoCommand, w1.ring) ELSE
    LET x == consume_decimal_u32_until_whitespace(w1.ring) IN
    IF x.err # "Ok" THEN CmdResult(x.err, NoCommand, x.ring) ELSE
    LET w2 == consume_whitespace(x.ring) IN
    IF w2.err # "Ok" THEN CmdResult(w2.err, NoCommand, w2.ring) ELSE
    LET y == consume_decimal_u32_until_whitespace_or_new_line(w2.ring) IN
    IF y.err # "Ok" THEN CmdResult(y.err, NoCommand, y.ring) ELSE
    IF y.digit = " "
    THEN LET color == consume_hexadecimal_color_until_new_line(y.ring)
         IN  IF color.err # "Ok"
             THEN CmdResult(color.err, NoCommand, color.ring)
             ELSE CmdResult("Ok", SetPixel(u32_to_int(x.value),
                                           u32_to_int(y.value), color.color),
                            color.ring)
    ELSE CmdResult("Ok", GetPixel(u32_to_int(x.value), u32_to_int(y.value)),
                   y.ring)

\* the OFFSET branch of read_next_command_inner, after the verb matched
read_offset(r) ==
    LET w1 == consume_whitespace(r) IN
    IF w1.err # "Ok" THEN CmdResult(w1.err, NoCommand, w1.ring) ELSE
    LET x == consume_decimal_u32_until_whitespace(w1.ring) IN
    IF x.err # "Ok" THEN CmdResult(x.err, NoCommand, x.ring) ELSE
    LET w2 == consume_whitespace(x.ring) IN
    IF w2.err # "Ok" THEN CmdResult(w2.err, NoCommand, w2.ring) ELSE
    LET y == consume_decimal_u32_until_new_line(w2.ring) IN
    IF y.err # "Ok" THEN CmdResult(y.err, NoCommand, y.ring) ELSE
    CmdResult("Ok", Offset(u32_to_int(x.value), u32_to_int(y.value)), y.ring)

read_next_command_inner(r) ==
    LET px == consume_compare(r, PX_VERB) IN
    IF px.err # "Ok" THEN CmdResult(px.err, NoCommand, px.ring) ELSE
    IF px.hit THEN read_px(px.ring) ELSE
    LET size == consume_compare(r, SIZE_VERB) IN
    IF size.err # "Ok" THEN CmdResult(size.err, NoCommand, size.ring) ELSE
    IF size.hit THEN CmdResult("Ok", Size, size.ring) ELSE
    LET help == consume_compare(r, HELP_VERB) IN
    IF help.err # "Ok" THEN CmdResult(help.err, NoCommand, help.ring) ELSE
    IF help.hit THEN CmdResult("Ok", Help, help.ring) ELSE
    LET offset == consume_compare(r, OFFSET_VERB) IN
    IF offset.err # "Ok" THEN CmdResult(offset.err, NoCommand, offset.ring) ELSE
    IF offset.hit THEN read_offset(offset.ring) ELSE
    CmdResult("UnknownVerb", NoCommand, r)

\* a read_next_command that keeps the read pointer where the failed parse
\* left it
read_next_command_no_restore(r) == read_next_command_inner(r)

read_next_command(r) ==
    LET old_read == r.read
        res == read_next_command_inner(r)
    IN  IF res.err = "MoreDataRequired"
        THEN [res EXCEPT !.ring.read = old_read]
        ELSE res

----------------------------------------------------------------------------
(* The kernel's side of a Read *)

\* the kernel stores `bytes` at the write pointer
Fill(r, bytes) ==
    [r EXCEPT !.buf = [i \in 0..(r.len - 1) |->
        LET k == (i - r.write + r.len) % r.len
        IN  IF k < Len(bytes) THEN bytes[k + 1] ELSE r.buf[i]]]

----------------------------------------------------------------------------
(* wellenbrecher-canvas: Canvas.  The shared region holds the pixel array  *)
(* and, right behind it, the owner map, one 32-bit word per pixel each.    *)

\* the canvas the workers open: every pixel Bgra::default(), no owner
Canvas_open(width, height) ==
    [width |-> width, height |-> height,
     data |-> [i \in 0..(width * height - 1) |-> Bgra_default],
     user_id_map |-> [i \in 0..(width * height - 1) |-> 0]]

coords_to_index(cv, x, y) == y * cv.width + x

\* a UserID word of the owner map read as a Bgra (b, g, r, a in memory order)
Bgra_from_word(w) ==
    [b |-> w % 256, g |-> (w \div 256) % 256, r |-> (w \div 65536) % 256,
     a |-> (w \div 16777216) % 256]

\* ptr::read(data.add(idx)): a pixel; past the pixel array the owner map
\* entry that lies there; past the region whatever the mapping holds
read_data(cv, idx, outside) ==
    LET len == cv.width * cv.height
    IN  IF idx < len THEN cv.data[idx]
        ELSE IF idx < 2 * len THEN Bgra_from_word(cv.user_id_map[idx - len])
        ELSE Bgra_from_word(outside)

\* ptr::read(user_id_map.add(idx)): an owner; past the map whatever the
\* mapping holds
read_user(cv, idx, outside) ==
    IF idx < cv.width * cv.height THEN cv.user_id_map[idx] ELSE outside

\* touched: the words of the region (pixel array, then owner map) accessed
pixel(cv, x, y, outside) ==
    IF y > cv.height \/ x > cv.width
    THEN [err |-> "PixelOutOfBounds", color |-> Bgra_default, touched |-> {}]
    ELSE [err |-> "Ok",
          color |-> read_data(cv, coords_to_index(cv, x, y), outside),
          touched |-> {coords_to_index(cv, x, y)}]

user(cv, x, y, outside) ==
    IF y > cv.height \/ x > cv.width
    THEN [err |-> "PixelOutOfBounds", user |-> 0, touched |-> {}]
    ELSE [err |-> "Ok",
          user |-> read_user(cv, coords_to_index(cv, x, y), outside),
          touched |-> {cv.width * cv.height + coords_to_index(cv, x, y)}]

saturating_sub(a, b) == IF a >= b THEN a - b ELSE 0

\* (diff * alpha) >> 8 for diff < 2^24 and alpha < 2^8, in 32 bits
mul_alpha_shr8(diff, alpha) ==
    (diff \div 65536) * 256 * alpha + ((diff % 65536) * alpha) \div 256

\* the 0 < alpha < 255 arm of set_pixel: the blended colour
blend(color1, color2, alpha) ==
    LET rb0 == (color1 \div 65536) * 65536 + (color1 % 256)
        g0 == ((color1 \div 256) % 256) * 256
        c2rb == (color2 \div 65536) * 65536 + (color2 % 256)
        c2g == ((color2 \div 256) % 256) * 256
        rb == rb0 + mul_alpha_shr8(saturating_sub(c2rb, rb0), alpha)
        g == g0 + mul_alpha_shr8(saturating_sub(c2g, g0), alpha)
        rgb == ((rb \div 65536) % 256) * 65536 + (rb % 256)
               + ((g \div 256) % 256) * 256
    IN  from_rgb(u32(rgb \div 65536, rgb % 65536))

\* a set_pixel that writes the colour but not the owner
set_pixel_no_owner(cv, x, y, color, user_id) ==
    IF x >= cv.width \/ y >= cv.height
    THEN [err |-> "PixelOutOfBounds", canvas |-> cv, touched |-> {}]
    ELSE IF color.a = 0
    THEN [err |-> "Ok", canvas |-> cv, touched |-> {}]
    ELSE [err |-> "Ok",
          canvas |-> [cv EXCEPT !.data[coords_to_index(cv, x, y)] = color],
          touched |-> {coords_to_index(cv, x, y)}]

\* a set_pixel without the alpha 0 arm: a transparent colour is blended
set_pixel_blend_zero(cv, x, y, color, user_id) ==
    IF x >= cv.width \/ y >= cv.height
    THEN [err |-> "PixelOutOfBounds", canvas |-> cv, touched |-> {}]
    ELSE IF color.a = 255
    THEN [err |-> "Ok",
          canvas |-> [cv EXCEPT !.data[coords_to_index(cv, x, y)] = color,
                                !.user_id_map[coords_to_index(cv, x, y)] =
                                    user_id],
          touched |-> {coords_to_index(cv, x, y)}]
    ELSE [err |-> "Ok",
          canvas |->
             [cv EXCEPT
                !.data[coords_to_index(cv, x, y)] =
                    blend(Bgra_rgb(cv.data[coords_to_index(cv, x, y)]),
                          Bgra_rgb(color), color.a),
                !.user_id_map[coords_to_index(cv, x, y)] = user_id],
          touched |-> {coords_to_index(cv, x, y)}]

set_pixel(cv, x, y, color, user_id) ==
    IF x >= cv.width \/ y >= cv.height
    THEN [err |-> "PixelOutOfBounds", canvas |-> cv, touched |-> {}]
    ELSE LET idx == coords_to_index(cv, x, y)
             len == cv.width * cv.height
         IN  IF color.a = 0
             THEN [err |-> "Ok", canvas |-> cv, touched |-> {}]
             ELSE IF color.a = 255
             THEN [err |-> "Ok",
                   canvas |-> [cv EXCEPT !.data[idx] = color,
                                         !.user_id_map[idx] = user_id],
                   touched |-> {idx, len + idx}]
             ELSE [err |-> "Ok",
                   canvas |->
                      [cv EXCEPT
                         !.data[idx] = blend(Bgra_rgb(cv.data[idx]),
                                             Bgra_rgb(color), color.a),
                         !.user_id_map[idx] = user_id],
                   touched |-> {idx, len + idx}]

----------------------------------------------------------------------------
(* Replies *)

LowerHex ==
    <<"0", "1", "2", "3", "4", "5", "6", "7", "8", "9",
      "a", "b", "c", "d", "e", "f">>

\* format!("{n}") of an unsigned number
RECURSIVE Dec(_)
Dec(n) ==
    IF n < 10 THEN <<LowerHex[n + 1]>>
    ELSE Dec(n \div 10) \o <<LowerHex[(n % 10) + 1]>>

\* the four lowercase hex digits of a 16-bit number, zero padded
Hex4(n) ==
    <<LowerHex[(n \div 4096) + 1], LowerHex[((n \div 256) % 16) + 1],
      LowerHex[((n \div 16) % 16) + 1], LowerHex[(n % 16) + 1]>>

\* format!("{color:0>8x}") of a u32
Hex8(color) == Hex4(color.hi) \o Hex4(color.lo)

\* the text of main.rs, taken as one piece
HELP_TEXT == <<"Welcome to Pixelflut! ...\n">>

\* format!("SIZE {} {}\n", canvas.width(), canvas.height())
size_reply_buffer(cv) ==
    <<"S", "I", "Z", "E", " ">> \o Dec(cv.width) \o <<" ">> \o Dec(cv.height)
        \o <<"\n">>

\* format!("PX {x} {y} {color:0>8x}\n")
get_pixel_msg(x, y, color) ==
    <<"P", "X", " ">> \o Dec(x) \o <<" ">> \o Dec(y) \o <<" ">> \o Hex8(color)
        \o <<"\n">>

\* submission queue entries
Write(fd, data) == [op |-> "Write", fd |-> fd, data |-> data]
Writev(fd, iovecs) == [op |-> "Writev", fd |-> fd, iovecs |-> iovecs]
Read(fd, len) == [op |-> "Read", fd |-> fd, len |-> len]

----------------------------------------------------------------------------
(* command.rs: Command::handle_command, as the connection handler calls it *)

StaticReplies_default == [help |-> 0, size |-> 0]

ExecResult(e, cv, st, off, pushed) ==
    [err |-> e, canvas |-> cv, static |-> st, offset |-> off, pushed |-> pushed]

\* Command::SetPixel at canvas coordinates (x, y)
handle_set_pixel(cv, x, y, color, user_id) == set_pixel(cv, x, y, color, user_id)

\* Command::GetPixel at canvas coordinates (x, y): the entries pushed
handle_get_pixel(cv, fd, x, y, outside) ==
    LET p == pixel(cv, x, y, outside)
        color == u32_from_Bgra(IF p.err = "Ok" THEN p.color ELSE Bgra_default)
    IN  <<Write(fd, get_pixel_msg(x, y, color))>>

handle_command(cmd, cv, fd, st, user_id, off, outside) ==
    CASE cmd.type = "Help" ->
            ExecResult("Ok", cv, [st EXCEPT !.help = @ + 1], off, <<>>)
      [] cmd.type = "Size" ->
            ExecResult("Ok", cv, [st EXCEPT !.size = @ + 1], off, <<>>)
      [] cmd.type = "Offset" ->
            ExecResult("Ok", cv, st, <<cmd.x, cmd.y>>, <<>>)
      [] cmd.type = "SetPixel" ->
            LET res == handle_set_pixel(cv, cmd.x + off[1], cmd.y + off[2],
                                        cmd.color, user_id)
            IN  ExecResult(res.err, res.canvas, st, off, <<>>)
      [] cmd.type = "GetPixel" ->
            ExecResult("Ok", cv, st, off,
                       handle_get_pixel(cv, fd, cmd.x + off[1], cmd.y + off[2],
                                        outside))

----------------------------------------------------------------------------
(* pixelflut_connection_handler.rs *)

\* the parse-execute loop of on_completion.  `done` collects, per command
\* executed, the command, the offset and canvas it met, the canvas it
\* left, the entries it pushed and its outcome
RECURSIVE parse_execute(_, _, _, _, _, _, _, _)

\* a loop that hands every command the offset the batch began with
command_handled_offset_copied(res, h, cv, fd, user_id, off, outside, done) ==
    IF h.err = "Ok"
    THEN parse_execute(res.ring, h.canvas, fd, h.static, user_id, off,
                       outside,
                       Append(done, [cmd |-> res.cmd, offset |-> off,
                                     before |-> cv, after |-> h.canvas,
                                     pushed |-> h.pushed, err |-> h.err]))
    ELSE [end |-> h.err, ring |-> res.ring, canvas |-> h.canvas,
          static |-> h.static, offset |-> off,
          done |-> Append(done, [cmd |-> res.cmd, offset |-> off,
                                 before |-> cv, after |-> h.canvas,
                                 pushed |-> h.pushed, err |-> h.err])]

\* the arms of the match on handle_command's result h
command_handled(res, h, cv, fd, user_id, off, outside, done) ==
    IF h.err = "Ok"
    THEN parse_execute(res.ring, h.canvas, fd, h.static, user_id, h.offset,
                       outside,
                       Append(done, [cmd |-> res.cmd, offset |-> off,
                                     before |-> cv, after |-> h.canvas,
                                     pushed |-> h.pushed, err |-> h.err]))
    ELSE [end |-> h.err, ring |-> res.ring, canvas |-> h.canvas,
          static |-> h.static, offset |-> h.offset,
          done |-> Append(done, [cmd |-> res.cmd, offset |-> off,
                                 before |-> cv, after |-> h.canvas,
                                 pushed |-> h.pushed, err |-> h.err])]

\* the arms of the match on read_next_command's result res
command_read(res, cv, fd, st, user_id, off, outside, done) ==
    IF res.err = "Ok"
    THEN command_handled(res, handle_command(res.cmd, cv, fd, st, user_id, off,
                                             outside),
                         cv, fd, user_id, off, outside, done)
    ELSE [end |-> res.err, ring |-> res.ring, canvas |-> cv,
          static |-> st, offset |-> off, done |-> done]

parse_execute(r, cv, fd, st, user_id, off, outside, done) ==
    command_read(read_next_command(r), cv, fd, st, user_id, off, outside, done)

\* a coalesced reply with one iovec per request
static_iovecs_each(cv, st) ==
    [i \in 1..st.size |-> size_reply_buffer(cv)]
        \o [i \in 1..st.help |-> HELP_TEXT]

\* the iovecs of the coalesced reply
static_iovecs(cv, st) ==
    (IF st.size > 0 THEN <<size_reply_buffer(cv)>> ELSE <<>>)
        \o (IF st.help > 0 THEN <<HELP_TEXT>> ELSE <<>>)

\* an after_loop whose Read takes the whole buffer for its window
after_loop_whole_buffer(cv, fd, st, r) ==
    LET iovecs == static_iovecs(cv, st)
    IN  (IF iovecs # <<>> THEN <<Writev(fd, iovecs)>> ELSE <<>>)
            \o <<Read(fd, r.len)>>

\* what the handler pushes after the parse loop ended in MoreDataRequired
after_loop(cv, fd, st, r) ==
    LET iovecs == static_iovecs(cv, st)
    IN  (IF iovecs # <<>> THEN <<Writev(fd, iovecs)>> ELSE <<>>)
            \o <<Read(fd, contig_write(r))>>

RECURSIVE Flatten(_)
Flatten(ss) == IF ss = <<>> THEN <<>> ELSE Head(ss) \o Flatten(Tail(ss))

\* the entries the commands of a batch pushed, in order
replies_of(done) == Flatten([i \in 1..Len(done) |-> done[i].pushed])

\* a handler that submits the next Read whatever ended the parse loop
loop_ended_rearmed(conn, fd, loop) ==
    [flow |-> "Continue",
     alive |-> loop.end = "MoreDataRequired",
     conn |-> [conn EXCEPT !.command_ring = loop.ring,
                           !.user_offset = loop.offset],
     canvas |-> loop.canvas, done |-> loop.done, end |-> loop.end,
     pushed |-> replies_of(loop.done)
                    \o after_loop(loop.canvas, fd, loop.static, loop.ring)]

\* on_completion once the parse loop has ended: the connection afterwards
\* (dropped unless alive), the canvas, and the entries pushed in order
loop_ended(conn, fd, loop) ==
    [flow |-> "Continue",
     alive |-> loop.end = "MoreDataRequired",
     conn |-> [conn EXCEPT !.command_ring = loop.ring,
                           !.user_offset = loop.offset],
     canvas |-> loop.canvas, done |-> loop.done, end |-> loop.end,
     pushed |-> IF loop.end = "MoreDataRequired"
                THEN replies_of(loop.done)
                         \o after_loop(loop.canvas, fd, loop.static, loop.ring)
                ELSE replies_of(loop.done)]

\* on_completion for a read completion with n > 0
on_read(conn, cv, fd, bytes, outside) ==
    loop_ended(conn, fd,
               parse_execute(advance_write_unchecked(
                                 Fill(conn.command_ring, bytes), Len(bytes)),
                             cv, fd, StaticReplies_default, conn.user_id,
                             conn.user_offset, outside, <<>>))

----------------------------------------------------------------------------
(* The peer's streams *)

LineGet == <<"P", "X", " ", "1", " ", "2", "\n">>
LineSet == <<"P", "X", " ", "3", " ", "4", " ", "7", "f", "\n">>
LineSpaces == <<"P", "X", " ", " ", "1", " ", " ", "2", "\n">>
LineOffset == <<"O", "F", "F", "S", "E", "T", " ", "5", " ", "6", "\n">>
LineBadDecimal == <<"P", "X", " ", "1", " ", "g", "\n">>
LineBadHex == <<"P", "X", " ", "1", " ", "2", " ", "z", "z", "\n">>
LineBadColor == <<"P", "X", " ", "1", " ", "2", " ", "f", "f", "f", "\n">>
LineUnknown == <<"F", "O", "O", "B", "A", "R", "\n">>

ValidLines == {LineGet, LineSet, LineSpaces, LineOffset, SIZE_VERB, HELP_VERB}
Lines == ValidLines \cup {LineBadDecimal, LineBadHex, LineBadColor, LineUnknown}

RECURSIVE LineStreams(_)
LineStreams(n) ==
    IF n = 0 THEN {<<>>}
    ELSE LET shorter == LineStreams(n - 1)
         IN  shorter \cup {s \o l : s \in shorter, l \in Lines}

\* colour digit strings: the prefixes of these
ColorBases ==
    { <<"0", "a", "0", "b", "0", "c", "1", "d", "2", "e", "3", "f", "4", "5">>,
      <<"7", "F", "3", "c", "A", "9", "f", "f", "0", "0", "B", "6", "8", "D">>,
      <<"f", "f", "f", "f", "f", "f", "f", "f", "f", "f", "f", "f", "f", "f">> }

ColorPrefix == <<"P", "X", " ", "1", " ", "2", " ">>

ColorStream(digits) == ColorPrefix \o digits \o <<"\n">>

ColorDigitStrings ==
    {SubSeq(base, 1, k) : base \in ColorBases, k \in 0..MaxColorDigits}

\* lines that leave out a separator or a field, or put another byte where a
\* decimal digit belongs
LineNoSeparator == <<"P", "X", "1", " ", "2", "\n">>
LineOffsetNoSeparator == <<"O", "F", "F", "S", "E", "T", "5", " ", "6", "\n">>
LineEmptyField == <<"P", "X", " ", "1", " ", "\n">>
LineLowerHexDecimal == <<"P", "X", " ", "a", " ", "1", "\n">>
LineUpperHexDecimal == <<"O", "F", "F", "S", "E", "T", " ", "1", " ", "F", "\n">>
LineCarriageReturn == <<"P", "X", " ", "1", " ", "2", "\r", "\n">>

\* lines that begin with no verb and are shorter than the longest verb
LineShortUnknown == <<"A", "\n">>
LineQuit == <<"Q", "U", "I", "T", "\n">>

\* a line whose x field denotes 2^32 + 1
LineWrapDecimal ==
    <<"P", "X", " ", "4", "2", "9", "4", "9", "6", "7", "2", "9", "7", " ",
      "0", "\n">>

OddLines ==
    {LineShortUnknown, LineQuit, LineWrapDecimal,
     LineNoSeparator, LineOffsetNoSeparator, LineEmptyField,
     LineLowerHexDecimal, LineUpperHexDecimal, LineCarriageReturn}

Streams ==
    (LineStreams(MaxCmds) \ {<<>>})
       \cup {ColorStream(d) : d \in ColorDigitStrings}
       \cup OddLines

RingSizes == {MinRingLen, MaxRingLen}
StartOffsets(len) == {0, len - WrapMargin}

----------------------------------------------------------------------------
(* SpecRing: one CommandRing, driven as the connection handler drives it:  *)
(* a read completion writes n > 0 bytes into the contig_write window and   *)
(* advances write; read_next_command is then called until it fails.       *)

\* a ring whose earlier commands were all consumed, read and write at offset k
RingAt(len, k) == [CommandRing_new(len) EXCEPT !.read = k, !.write = k]

InitRing ==
    /\ \E len \in RingSizes : \E k \in StartOffsets(len) :
          ring = RingAt(len, k) /\ start = k
    /\ pending \in Streams
    /\ fed = <<>>
    /\ cmds = <<>>
    /\ last = "none"
    /\ resumed = FALSE
    /\ bytewise = TRUE
    /\ pc = "read"
    /\ canvas = Unused /\ conns = Unused /\ log = Unused /\ batch = Unused
    /\ access = Unused /\ UsersUnused /\ CoordUnused
    /\ PureUnused

AdvanceWrite(n) ==
    /\ pc = "read"
    /\ n <= contig_write(ring)
    /\ n <= Len(pending)
    /\ ring' = advance_write_unchecked(Fill(ring, SubSeq(pending, 1, n)), n)
    /\ fed' = fed \o SubSeq(pending, 1, n)
    /\ pending' = SubSeq(pending, n + 1, Len(pending))
    /\ resumed' = (resumed \/ available_to_read(ring) > 0)
    /\ bytewise' = (bytewise /\ n = 1)
    /\ pc' = "parse"
    /\ UNCHANGED <<start, cmds, last, canvas, connVars, access, userVars,
                   coordVars, pureVars>>

ReadNextCommand ==
    /\ pc = "parse"
    /\ LET res == read_next_command(ring)
       IN  /\ ring' = res.ring
           /\ last' = res.err
           /\ cmds' = IF res.err = "Ok" THEN Append(cmds, res.cmd) ELSE cmds
           /\ pc' = CASE res.err = "Ok" -> "parse"
                      [] res.err = "MoreDataRequired" -> "read"
                      [] OTHER -> "closed"
    /\ UNCHANGED <<pending, fed, start, resumed, bytewise, canvas, connVars,
                   access, userVars, coordVars, pureVars>>

NextRing ==
    \/ \E n \in 1..MaxRingLen : AdvanceWrite(n)
    \/ ReadNextCommand

SpecRing == InitRing /\ [][NextRing]_vars

----------------------------------------------------------------------------
(* What the peers of SpecConn send *)

PxGet(x, y) == <<"P", "X", " ">> \o Dec(x) \o <<" ">> \o Dec(y) \o <<"\n">>

PxSet(x, y, digits) ==
    <<"P", "X", " ">> \o Dec(x) \o <<" ">> \o Dec(y) \o <<" ">> \o digits
        \o <<"\n">>

OffsetLine(x, y) ==
    <<"O", "F", "F", "S", "E", "T", " ">> \o Dec(x) \o <<" ">> \o Dec(y)
        \o <<"\n">>

SizeLine == <<"S", "I", "Z", "E", "\n">>
HelpLine == <<"H", "E", "L", "P", "\n">>

RECURSIVE Repeat(_, _)
Repeat(line, k) == IF k = 0 THEN <<>> ELSE line \o Repeat(line, k - 1)

Opaque6 == <<"0", "a", "0", "b", "0", "c">>
Grey2 == <<"c", "0">>
Marker2 == <<"e", "e">>
Half8 == <<"f", "f", "8", "0", "4", "0", "8", "0">>
Clear8 == <<"1", "1", "2", "2", "3", "3", "0", "0">>

\* written after a faulty line; no other stream writes this colour
MarkerSet == PxSet(0, 0, Marker2)

SetGetStreams ==
    { PxSet(1, 1, Opaque6) \o PxGet(1, 1),
      PxSet(0, 0, Grey2) \o PxGet(0, 0),
      PxSet(0, 0, Half8) \o PxGet(0, 0),
      PxSet(1, 1, Clear8) \o PxGet(1, 1),
      PxGet(1, 1) }

OffsetStreams ==
    { OffsetLine(1, 1) \o PxSet(1, 0, Grey2) \o PxGet(1, 0),
      OffsetLine(2, 0) \o PxGet(0, 1) \o OffsetLine(0, 0) \o PxGet(0, 1),
      OffsetLine(1, 1) \o PxSet(CanvasWidth - 1, 0, Grey2) \o MarkerSet,
      OffsetLine(1, 1) \o PxGet(0, CanvasHeight - 1) \o MarkerSet }

StaticStreams ==
    { Repeat(SizeLine, k) : k \in 1..MaxRepeat }
        \cup { Repeat(HelpLine, k) : k \in 1..MaxRepeat }
        \cup { HelpLine \o SizeLine \o HelpLine,
               SizeLine \o PxGet(0, 0) \o SizeLine,
               HelpLine \o SizeLine,
               SizeLine \o PxGet(0, 0),
               PxGet(0, 0) \o HelpLine \o PxGet(1, 0) }

OutOfBoundsStreams ==
    { PxSet(CanvasWidth, 0, Grey2) \o MarkerSet \o PxGet(0, 0),
      PxSet(0, CanvasHeight, Grey2) \o MarkerSet,
      PxGet(CanvasWidth, 0) \o MarkerSet \o PxGet(0, 0),
      PxGet(1, CanvasHeight) \o MarkerSet,
      PxGet(CanvasWidth + 1, 0) \o MarkerSet }

FaultyStreams ==
    { bad \o MarkerSet : bad \in {LineBadDecimal, LineBadHex, LineBadColor,
                                  LineUnknown} }
        \cup { PxSet(1, 0, Grey2) \o LineUnknown \o MarkerSet }

\* one valid line that is longer than a connection's command ring: PX, as
\* many spaces as the ring has bytes, and the coordinates
FloodLine ==
    <<"P", "X">> \o Repeat(<<" ">>, MaxRingLen) \o Dec(1) \o <<" ">>
        \o Dec(0) \o <<"\n">>

ConnStreams ==
    SetGetStreams \cup OffsetStreams \cup StaticStreams
        \cup OutOfBoundsStreams \cup FaultyStreams \cup {FloodLine}

\* what the second connection's peer sends
PeerStreams ==
    { PxSet(1, 1, Half8) \o PxGet(1, 1),
      OffsetLine(0, 1) \o PxSet(0, 0, Grey2) \o PxGet(0, 0),
      SizeLine \o HelpLine,
      PxSet(CanvasWidth, 1, Grey2) \o MarkerSet,
      LineBadHex \o MarkerSet }

StreamsOf(c) == IF c = 1 THEN ConnStreams ELSE PeerStreams

\* what a read past the shared region may find
OutsideWords == {0, 1}

\* pixel() and user() admit x <= width and y <= height, so they read past
\* the region only when the canvas is one row high
Outside(cv) == IF cv.height > 1 THEN {0} ELSE OutsideWords

----------------------------------------------------------------------------
(* SpecConn: one lackey serving connections against the canvas.  A client  *)
(* arrives (NewClient), its reads complete with n > 0, n = 0 or n < 0.     *)
(* A connection's Read is in flight (inflight, of window bytes) from its   *)
(* submission to its completion; only then a completion arrives for it.    *)
(* state is "open" while the Connection lives and "dropped" afterwards.    *)

Conns == {1, 2}

NoConnection ==
    [state |-> "none", command_ring |-> CommandRing_new(MaxRingLen),
     user_offset |-> <<0, 0>>, user_id |-> 0, inflight |-> FALSE,
     window |-> 0, input |-> <<>>, delivered |-> 0]

InitConn ==
    /\ canvas = Canvas_open(CanvasWidth, CanvasHeight)
    /\ conns = [c \in Conns |-> NoConnection]
    /\ log = [c \in Conns |-> <<>>]
    /\ batch = [kind |-> "none", fd |-> 0, flow |-> "Continue", end |-> "none",
                done |-> <<>>, pushed |-> <<>>, before |-> canvas]
    /\ ring = Unused /\ pending = Unused /\ fed = Unused /\ start = Unused
    /\ cmds = Unused /\ last = Unused /\ resumed = Unused
    /\ bytewise = Unused /\ pc = Unused /\ access = Unused
    /\ UsersUnused /\ CoordUnused
    /\ PureUnused

\* ring_coordination.rs, NewClient: the connection is built and its first
\* Read is submitted.  `input` is what the peer is going to send
NewClient(c) ==
    /\ conns[c].state = "none"
    /\ \E input \in StreamsOf(c) :
          LET r == CommandRing_new(MaxRingLen)
          IN  /\ conns' = [conns EXCEPT ![c] =
                    [state |-> "open", command_ring |-> r,
                     user_offset |-> <<0, 0>>, user_id |-> c,
                     inflight |-> TRUE, window |-> contig_write(r),
                     input |-> input,
                     delivered |-> 0]]
              /\ batch' = [kind |-> "NewClient", fd |-> c, flow |-> "Continue",
                           end |-> "none", done |-> <<>>,
                           pushed |-> <<Read(c, contig_write(r))>>,
                           before |-> canvas]
    /\ UNCHANGED <<canvas, log, ringVars, access, userVars, coordVars, pureVars>>

\* how many bytes a completed Read may report for connection c: all the
\* peer has left to send, or its first bytes cut inside or behind a verb
ReadCounts(c) ==
    LET rest == Len(conns[c].input) - conns[c].delivered
        most == IF rest < conns[c].window THEN rest ELSE conns[c].window
        cuts == IF conns[c].delivered = 0 THEN {ChunkLen, ChunkLen + 1} ELSE {}
    IN  {n \in {most} \cup cuts : n > 0 /\ n <= most}

\* on_completion, n > 0
ReadCompleted(c) ==
    /\ conns[c].inflight
    /\ \E n \in ReadCounts(c), outside \in Outside(canvas) :
       \E res \in {on_read(conns[c], canvas, c,
                           SubSeq(conns[c].input, conns[c].delivered + 1,
                                  conns[c].delivered + n), outside)} :
       \E reads \in {SelectSeq(res.pushed, LAMBDA e : e.op = "Read")} :
          /\ conns' = [conns EXCEPT ![c] =
                [res.conn EXCEPT
                    !.state = IF res.alive THEN "open" ELSE "dropped",
                    !.inflight = reads # <<>>,
                    !.window = IF reads = <<>> THEN 0 ELSE reads[1].len,
                    !.delivered = @ + n]]
          /\ canvas' = res.canvas
          /\ log' = [log EXCEPT ![c] = @ \o res.done]
          /\ batch' = [kind |-> "read", fd |-> c, flow |-> res.flow,
                       end |-> res.end, done |-> res.done,
                       pushed |-> res.pushed, before |-> canvas]
    /\ UNCHANGED <<ringVars, access, userVars, coordVars, pureVars>>

\* on_completion, n = 0: the peer closed, the connection is dropped
ReadEof(c) ==
    /\ conns[c].inflight
    /\ conns' = [conns EXCEPT ![c].state = "dropped", ![c].inflight = FALSE,
                              ![c].window = 0]
    /\ batch' = [kind |-> "eof", fd |-> c, flow |-> "Continue", end |-> "none",
                 done |-> <<>>, pushed |-> <<>>, before |-> canvas]
    /\ UNCHANGED <<canvas, log, ringVars, access, userVars, coordVars, pureVars>>

\* on_completion, n < 0: the read failed, the connection goes out of scope
ReadFailed(c) ==
    /\ conns[c].inflight
    /\ conns' = [conns EXCEPT ![c].state = "dropped", ![c].inflight = FALSE,
                              ![c].window = 0]
    /\ batch' = [kind |-> "failed", fd |-> c, flow |-> "Continue",
                 end |-> "none", done |-> <<>>, pushed |-> <<>>,
                 before |-> canvas]
    /\ UNCHANGED <<canvas, log, ringVars, access, userVars, coordVars, pureVars>>

NextConn ==
    \E c \in Conns :
        NewClient(c) \/ ReadCompleted(c) \/ ReadEof(c) \/ ReadFailed(c)

SpecConn == InitConn /\ [][NextConn]_vars

----------------------------------------------------------------------------
(* SpecCanvas: a process calling the canvas: pixel, user and set_pixel at  *)
(* coordinates inside, on and beyond the canvas's edges                    *)

XCoords(cv) == {0, cv.width - 1, cv.width, cv.width + 1}
YCoords(cv) == {0, cv.height - 1, cv.height, cv.height + 1}

\* an opaque colour, two half transparent ones (one brighter in every
\* channel than the opaque one, one with more red and less green and blue)
\* and a fully transparent one, each with the user that sets it
SetInputs ==
    { <<from_rgb(u32(10, 11 * 256 + 12)), 1>>,
      <<from_rgba(u32(255 * 256 + 128, 64 * 256 + 128)), 2>>,
      <<from_rgba(u32(11 * 256 + 5, 2 * 256 + 128)), 2>>,
      <<from_rgba(u32(17 * 256 + 34, 51 * 256)), 2>> }

InitCanvas ==
    /\ \E height \in {CanvasHeight, 1} :
          canvas = Canvas_open(CanvasWidth, height)
    /\ access = [op |-> "none", x |-> 0, y |-> 0, err |-> "Ok", touched |-> {},
                 color |-> Bgra_default, user |-> 0, sets |-> 0,
                 before |-> canvas]
    /\ conns = Unused /\ log = Unused /\ batch = Unused
    /\ ring = Unused /\ pending = Unused /\ fed = Unused /\ start = Unused
    /\ cmds = Unused /\ last = Unused /\ resumed = Unused
    /\ bytewise = Unused /\ pc = Unused /\ UsersUnused /\ CoordUnused
    /\ PureUnused

\* Canvas::pixel
CanvasPixel ==
    /\ \E x \in XCoords(canvas), y \in YCoords(canvas),
          outside \in Outside(canvas) :
       \E res \in {pixel(canvas, x, y, outside)} :
          access' = [op |-> "pixel", x |-> x, y |-> y, err |-> res.err,
                     touched |-> res.touched, color |-> res.color, user |-> 0,
                     sets |-> access.sets, before |-> canvas]
    /\ UNCHANGED <<canvas, connVars, ringVars, userVars, coordVars, pureVars>>

\* Canvas::user
CanvasUser ==
    /\ \E x \in XCoords(canvas), y \in YCoords(canvas),
          outside \in Outside(canvas) :
       \E res \in {user(canvas, x, y, outside)} :
          access' = [op |-> "user", x |-> x, y |-> y, err |-> res.err,
                     touched |-> res.touched, color |-> Bgra_default,
                     user |-> res.user, sets |-> access.sets,
                     before |-> canvas]
    /\ UNCHANGED <<canvas, connVars, ringVars, userVars, coordVars, pureVars>>

\* Canvas::set_pixel
CanvasSetPixel ==
    /\ access.sets < MaxSets
    /\ \E x \in XCoords(canvas), y \in YCoords(canvas), input \in SetInputs :
       \E res \in {set_pixel(canvas, x, y, input[1], input[2])} :
          /\ canvas' = res.canvas
          /\ access' = [op |-> "set_pixel", x |-> x, y |-> y, err |-> res.err,
                        touched |-> res.touched, color |-> input[1],
                        user |-> input[2], sets |-> access.sets + 1,
                        before |-> canvas]
    /\ UNCHANGED <<connVars, ringVars, userVars, coordVars, pureVars>>

NextCanvas == CanvasPixel \/ CanvasUser \/ CanvasSetPixel

SpecCanvas == InitCanvas /\ [][NextCanvas]_vars

----------------------------------------------------------------------------
(* Claims about the CommandRing, checked under SpecRing *)

\* read_next_command until it fails, on a ring holding the stream whole
RECURSIVE ParseAll(_, _)
ParseAll(r, acc) ==
    LET res == read_next_command(r)
    IN  IF res.err = "Ok"
        THEN ParseAll(res.ring, Append(acc, res.cmd))
        ELSE [cmds |-> acc, err |-> res.err]

WholeRun(len, k, B) ==
    ParseAll(advance_write_unchecked(Fill(RingAt(len, k), B), Len(B)), <<>>)

Fits(B) == Len(B) <= ring.len

\* C1 (parser resumability): whenever the parse loop has ended, the commands
\* returned so far and the error that ended the loop are those of writing
\* the bytes fed so far whole into the ring and parsing them, however the
\* bytes were split into writes; after an error they are also those of the
\* whole stream.
C1_Resumability ==
    (pc # "parse" /\ fed # <<>> /\ Fits(fed)) =>
        /\ [cmds |-> cmds, err |-> last] = WholeRun(ring.len, start, fed)
        /\ (pc = "closed" /\ Fits(fed \o pending)) =>
              [cmds |-> cmds, err |-> last]
                  = WholeRun(ring.len, start, fed \o pending)

\* a stream of two commands was fed in pieces that cut a command, and both
\* commands were returned
C1_Witness ==
    /\ resumed /\ pc = "read" /\ pending = <<>> /\ Fits(fed)
    /\ Len(cmds) = 2
    /\ start # 0

\* C2 (transactional read): a read_next_command that returns
\* MoreDataRequired leaves the read pointer and available_to_read() as they
\* were before the call.
C2_TransactionalRead ==
    [][(ReadNextCommand /\ last' = "MoreDataRequired") =>
          /\ ring'.read = ring.read
          /\ available_to_read(ring') = available_to_read(ring)]_vars

ExpectedCommand(line) ==
    CASE line = LineGet -> [type |-> "GetPixel", x |-> 1, y |-> 2]
      [] line = LineSpaces -> [type |-> "GetPixel", x |-> 1, y |-> 2]
      [] line = LineSet ->
            [type |-> "SetPixel", x |-> 3, y |-> 4,
             color |-> [r |-> 127, g |-> 127, b |-> 127, a |-> 255]]
      [] line = LineOffset -> [type |-> "Offset", x |-> 5, y |-> 6]
      [] line = SIZE_VERB -> [type |-> "Size"]
      [] line = HELP_VERB -> [type |-> "Help"]

\* C3 (verb boundaries): a valid command line fed one byte at a time gives
\* MoreDataRequired after every proper prefix and exactly one command, the
\* line's, once its LF is written ("PX 1 2\n" gives GetPixel{1,2}).
C3_VerbBoundaries ==
    \A line \in ValidLines :
        (bytewise /\ fed \o pending = line /\ Fits(line)) =>
            /\ pc # "closed"
            /\ Len(cmds) <= 1
            /\ pending # <<>> => cmds = <<>>
            /\ (pending # <<>> /\ fed # <<>> /\ pc = "read") =>
                  last = "MoreDataRequired"
            /\ (pending = <<>> /\ pc = "read") =>
                  cmds = <<ExpectedCommand(line)>>

\* "PX 1 2\n" was written one byte at a time and GetPixel{1,2} came out
C3_Witness ==
    /\ bytewise /\ fed = LineGet /\ pending = <<>> /\ pc = "read"
    /\ cmds = <<[type |-> "GetPixel", x |-> 1, y |-> 2]>>
    /\ last = "MoreDataRequired"

HexDigits ==
    <<"0", "1", "2", "3", "4", "5", "6", "7", "8", "9",
      "a", "b", "c", "d", "e", "f">>
UpperHexDigits ==
    <<"0", "1", "2", "3", "4", "5", "6", "7", "8", "9",
      "A", "B", "C", "D", "E", "F">>

DigitValue(c) ==
    CHOOSE v \in 0..15 : c = HexDigits[v + 1] \/ c = UpperHexDigits[v + 1]

\* the byte two hex digits at d[i], d[i+1] denote
ByteAt(d, i) == 16 * DigitValue(d[i]) + DigitValue(d[i + 1])

ExpectedColor(d) ==
    CASE Len(d) = 2 ->
            [r |-> ByteAt(d, 1), g |-> ByteAt(d, 1), b |-> ByteAt(d, 1),
             a |-> 255]
      [] Len(d) = 6 ->
            [r |-> ByteAt(d, 1), g |-> ByteAt(d, 3), b |-> ByteAt(d, 5),
             a |-> 255]
      [] Len(d) = 8 ->
            [r |-> ByteAt(d, 1), g |-> ByteAt(d, 3), b |-> ByteAt(d, 5),
             a |-> ByteAt(d, 7)]

\* C5 (colour length rule): "PX 1 2 <digits>\n" is accepted exactly when it
\* has 2, 6 or 8 hex digits, as grayscale, RGB with alpha 0xFF, and RGBA;
\* every other number of digits, 0 and more than 8 included, ends in
\* InvalidColor and gives no command.
C5_ColorLength ==
    \A d \in ColorDigitStrings :
        (fed \o pending = ColorStream(d) /\ Fits(ColorStream(d))) =>
            IF Len(d) \in {2, 6, 8}
            THEN /\ pc # "closed"
                 /\ cmds # <<>> =>
                       /\ cmds = <<[type |-> "SetPixel", x |-> 1, y |-> 2,
                                    color |-> ExpectedColor(d)]>>
                       /\ pending = <<>>
                 /\ (pending = <<>> /\ pc = "read") => cmds # <<>>
            ELSE /\ cmds = <<>>
                 /\ pc = "closed" => last = "InvalidColor"
                 /\ pending = <<>> => pc # "read"

\* an 8-digit colour whose alpha is not 0xFF was accepted, channels in place
C5_Witness ==
    /\ pc = "read" /\ pending = <<>>
    /\ fed = ColorStream(<<"0", "a", "0", "b", "0", "c", "1", "d">>)
    /\ cmds = <<[type |-> "SetPixel", x |-> 1, y |-> 2,
                 color |-> [r |-> 10, g |-> 11, b |-> 12, a |-> 29]]>>

\* a 9-digit colour was rejected
C5_WitnessRejected ==
    /\ pc = "closed" /\ last = "InvalidColor"
    /\ Len(fed \o pending) = Len(ColorPrefix) + 10

----------------------------------------------------------------------------
(* Claims about command execution and the connection handler, checked     *)
(* under SpecConn                                                          *)

InBounds(x, y) == x < CanvasWidth /\ y < CanvasHeight

\* the offset OFFSET commands have set after the first n entries of a log
RECURSIVE OffsetAfter(_, _)
OffsetAfter(entries, n) ==
    IF n = 0 THEN <<0, 0>>
    ELSE IF entries[n].cmd.type = "Offset" /\ entries[n].err = "Ok"
    THEN <<entries[n].cmd.x, entries[n].cmd.y>>
    ELSE OffsetAfter(entries, n - 1)

\* the eight digits rrggbbaa of a stored pixel
RgbaDigits(c) == Hex4(c.r * 256 + c.g) \o Hex4(c.b * 256 + c.a)

PxReply(x, y, digits) ==
    <<"P", "X", " ">> \o Dec(x) \o <<" ">> \o Dec(y) \o <<" ">> \o digits
        \o <<"\n">>

\* C4 (write-then-read reply): when one read completion executes a SetPixel
\* of an opaque colour rrggbb and next a GetPixel of the same pixel, the
\* GetPixel submits exactly one Write of "PX x y rrggbbff\n", the digits
\* being the red, green, blue and alpha bytes in this order; so
\* "PX 1 1 0a0b0c" then "PX 1 1" is answered "PX 1 1 0a0b0cff".
C4_WriteThenRead ==
    batch.kind = "read" =>
        /\ \A i \in 1..(Len(batch.done) - 1) :
              LET set == batch.done[i]
                  get == batch.done[i + 1]
              IN  ( /\ set.cmd.type = "SetPixel" /\ set.err = "Ok"
                    /\ set.cmd.color.a = 255
                    /\ get.cmd.type = "GetPixel"
                    /\ get.cmd.x = set.cmd.x /\ get.cmd.y = set.cmd.y
                    /\ get.offset = set.offset )
                  => get.pushed =
                        <<Write(batch.fd,
                                PxReply(get.cmd.x + get.offset[1],
                                        get.cmd.y + get.offset[2],
                                        RgbaDigits(set.cmd.color)))>>
        /\ ( /\ conns[batch.fd].input = PxSet(1, 1, Opaque6) \o PxGet(1, 1)
             /\ Len(batch.done) = 2 )
           => batch.done[2].pushed =
                 <<Write(batch.fd,
                         PxReply(1, 1, Opaque6 \o <<"f", "f">>))>>

\* what a SetPixel or GetPixel entry of a log did, given the offset in
\* effect: it acted on canvas pixel (x + ox, y + oy)
ActsAt(e, fd, off) ==
    LET x == e.cmd.x + off[1]
        y == e.cmd.y + off[2]
        idx == y * CanvasWidth + x
    IN  /\ (e.cmd.type = "SetPixel" /\ InBounds(x, y)) =>
              /\ e.err = "Ok"
              /\ \A i \in DOMAIN e.before.data :
                    i # idx => e.after.data[i] = e.before.data[i]
              /\ e.cmd.color.a = 255 => e.after.data[idx] = e.cmd.color
              /\ e.cmd.color.a = 0 => e.after = e.before
        /\ (e.cmd.type = "GetPixel" /\ InBounds(x, y)) =>
              e.pushed = <<Write(fd, PxReply(x, y,
                                Hex8(u32_from_Bgra(e.before.data[idx]))))>>
        /\ e.cmd.type = "GetPixel" =>
              /\ Len(e.pushed) = 1
              /\ LET head == <<"P", "X", " ">> \o Dec(x) \o <<" ">> \o Dec(y)
                                 \o <<" ">>
                 IN  SubSeq(e.pushed[1].data, 1, Len(head)) = head

IsSizeReply(data) ==
    Len(data) >= 5 /\ SubSeq(data, 1, 5) = <<"S", "I", "Z", "E", " ">>

IsHelpReply(data) == data = HELP_TEXT

\* the buffers an entry sends
BuffersOf(e) ==
    CASE e.op = "Write" -> <<e.data>>
      [] e.op = "Writev" -> e.iovecs
      [] OTHER -> <<>>

RECURSIVE BuffersSent(_)
BuffersSent(pushed) ==
    IF pushed = <<>> THEN <<>>
    ELSE BuffersOf(Head(pushed)) \o BuffersSent(Tail(pushed))

CommandsOfType(done, type) ==
    Len(SelectSeq(done, LAMBDA e : e.cmd.type = type))

C9_OutOfBoundsDisconnect ==
    \A c \in Conns : \A i \in 1..Len(log[c]) :
        LET e == log[c][i] IN
        ( /\ e.cmd.type \in {"SetPixel", "GetPixel"}
          /\ ~InBounds(e.cmd.x + e.offset[1], e.cmd.y + e.offset[2]) )
        => /\ conns[c].state = "dropped" /\ ~conns[c].inflight
           /\ i = Len(log[c])
           /\ e.pushed = <<>>
           /\ e.after = e.before

ParseErrors ==
    {"InvalidDecimalDigit", "InvalidHexadecimalDigit", "InvalidColor",
     "UnknownVerb"}

\* the commands of a log
CommandsOf(entries) == [i \in 1..Len(entries) |-> entries[i].cmd]

\* the commands a stream holds before its first fault, and the fault
StreamRun(B) == WholeRun(Len(B) + 1, 0, B)

Delivered(c) == SubSeq(conns[c].input, 1, conns[c].delivered)

\* the length of the longest line of B, its line feed included
RECURSIVE LongestLine(_, _, _, _)
LongestLine(B, i, cur, best) ==
    IF i > Len(B) THEN (IF cur > best THEN cur ELSE best)
    ELSE IF B[i] = "\n"
    THEN LongestLine(B, i + 1, 0, IF cur + 1 > best THEN cur + 1 ELSE best)
    ELSE LongestLine(B, i + 1, cur + 1, best)

\* no line the peer of c sends fills the command ring of c
LinesFit(c) ==
    LongestLine(conns[c].input, 1, 0, 0) < conns[c].command_ring.len

C10_Dropped ==
    /\ (batch.kind = "read" /\ batch.end \in ParseErrors) =>
          /\ conns[batch.fd].state = "dropped" /\ ~conns[batch.fd].inflight
          /\ SelectSeq(batch.pushed, LAMBDA e : e.op = "Read") = <<>>
          /\ batch.flow = "Continue"
          /\ LinesFit(batch.fd) =>
                StreamRun(Delivered(batch.fd))
                   = [cmds |-> CommandsOf(log[batch.fd]), err |-> batch.end]
    /\ batch.kind \in {"eof", "failed"} =>
          /\ conns[batch.fd].state = "dropped" /\ ~conns[batch.fd].inflight
          /\ batch.pushed = <<>>
          /\ batch.flow = "Continue"

C10_StaysDropped ==
    \A c \in Conns :
        conns[c].state = "dropped" =>
            /\ conns'[c] = conns[c]
            /\ log'[c] = log[c]
            /\ batch' # batch => batch'.fd # c

\* C10 (errors close the connection): when the parse loop ends in
\* InvalidDecimalDigit, InvalidHexadecimalDigit, InvalidColor or UnknownVerb,
\* or a read completes with n = 0 or n < 0, the connection is dropped, no
\* Read is submitted for it and the handler returns ControlFlow::Continue;
\* the commands the connection executed are those its bytes held before the
\* fault (for a peer whose lines fit the command ring), and a dropped
\* connection executes nothing and is handled no more.
C10_ErrorCloses == [](C10_Dropped) /\ [][C10_StaysDropped]_vars

\* a connection sent a SetPixel, an unknown verb and another SetPixel: it
\* executed the first command only and is dropped, while the other
\* connection is open and has executed commands
C10_Witness ==
    \E c, d \in Conns :
        /\ c # d
        /\ batch.fd = c /\ batch.end = "UnknownVerb"
        /\ conns[c].input = PxSet(1, 0, Grey2) \o LineUnknown \o MarkerSet
        /\ conns[c].state = "dropped" /\ Len(log[c]) = 1
        /\ conns[d].state = "open" /\ Len(log[d]) > 0

----------------------------------------------------------------------------
(* Claims about the canvas, checked under SpecCanvas *)

\* C8 (out-of-bounds rule): every set_pixel, pixel and user with
\* x >= width or y >= height returns PixelOutOfBounds, touches no memory
\* and leaves the canvas as it was; with x < width and y < height it
\* succeeds.
C8_OutOfBoundsRule ==
    access.op # "none" =>
        IF access.x >= canvas.width \/ access.y >= canvas.height
        THEN /\ access.err = "PixelOutOfBounds"
             /\ access.touched = {}
             /\ canvas = access.before
        ELSE access.err = "Ok"

\* the latest access was a set_pixel inside the canvas that returned Ok
SetInside ==
    /\ access.op = "set_pixel" /\ access.err = "Ok"
    /\ access.x < canvas.width /\ access.y < canvas.height

\* C11 (canvas round-trip): after set_pixel(x, y, c, u) with x, y inside the
\* canvas and c of alpha 255, pixel(x, y) is c and user(x, y) is u, and
\* every other pixel and every other owner entry is as it was before.
C11_RoundTrip ==
    (access.op = "set_pixel" /\ access.color.a = 255
        /\ access.x < canvas.width /\ access.y < canvas.height) =>
        LET idx == access.y * canvas.width + access.x
        IN  /\ access.err = "Ok"
            /\ \A outside \in OutsideWords :
                  /\ pixel(canvas, access.x, access.y, outside)
                        = [err |-> "Ok", color |-> access.color,
                           touched |-> {idx}]
                  /\ user(canvas, access.x, access.y, outside).err = "Ok"
                  /\ user(canvas, access.x, access.y, outside).user
                        = access.user
            /\ \A i \in DOMAIN canvas.data :
                  i # idx =>
                     /\ canvas.data[i] = access.before.data[i]
                     /\ canvas.user_id_map[i] = access.before.user_id_map[i]

\* an opaque set_pixel replaced a pixel another user owned
C11_Witness ==
    /\ SetInside /\ access.color.a = 255
    /\ access.before.user_id_map[access.y * canvas.width + access.x]
          \notin {0, access.user}
    /\ canvas.data[access.y * canvas.width + access.x] = access.color

\* C12 (transparent no-op): set_pixel(x, y, c, u) with x, y inside the canvas
\* and c of alpha 0 returns Ok and leaves the pixel array and the owner array
\* as they were.
C12_TransparentNoOp ==
    (access.op = "set_pixel" /\ access.color.a = 0
        /\ access.x < canvas.width /\ access.y < canvas.height) =>
        /\ access.err = "Ok"
        /\ canvas.data = access.before.data
        /\ canvas.user_id_map = access.before.user_id_map

\* a transparent set_pixel by user 2 met a pixel that user 1 had painted
C12_Witness ==
    /\ SetInside /\ access.color.a = 0
    /\ access.before.user_id_map[access.y * canvas.width + access.x] = 1
    /\ access.before.data[access.y * canvas.width + access.x].a = 255

----------------------------------------------------------------------------
(* ring_coordination.rs: UserState and get_or_create_user_state            *)
(*                                                                         *)
(* An IpAddr is [family, octets].  An Arc<UserState> is an index into      *)
(* users.states, which holds every UserState allocated so far with its ip  *)
(* and its connections counter; users.clients is the client vector.        *)

\* accepted sockets in one run of SpecUsers
MaxAccepts == 3

\* a & b on octets
RECURSIVE BitAnd(_, _)
BitAnd(a, b) ==
    IF a = 0 \/ b = 0 THEN 0
    ELSE (a % 2) * (b % 2) + 2 * BitAnd(a \div 2, b \div 2)

IpV4(a, b, c, d) == [family |-> "V4", octets |-> <<a, b, c, d>>]
IpV6(head, tail) == [family |-> "V6", octets |-> head \o tail]

\* the masked address: ip[i] & mask[i] for every octet of the family
masked_ip(ip, ipv4_mask, ipv6_mask) ==
    LET mask == IF ip.family = "V4" THEN ipv4_mask ELSE ipv6_mask
    IN  [family |-> ip.family,
         octets |-> [i \in 1..Len(ip.octets) |-> BitAnd(ip.octets[i], mask[i])]]

\* clients.iter().enumerate().find(|(_, state)| state.ip == ip): the first
\* index from idx on, counted from 1; 0 if there is none
RECURSIVE find_by_ip(_, _, _)
find_by_ip(us, ip, idx) ==
    IF idx > Len(us.clients) THEN 0
    ELSE IF us.states[us.clients[idx]].ip = ip THEN idx
    ELSE find_by_ip(us, ip, idx + 1)

\* a search for an entry to re-use that takes one with a single connection too
RECURSIVE find_unused_lax(_, _)
find_unused_lax(us, idx) ==
    IF idx > Len(us.clients) THEN 0
    ELSE IF us.states[us.clients[idx]].connections <= 1 THEN idx
    ELSE find_unused_lax(us, idx + 1)

\* a search for an entry to re-use that never finds one
find_unused_none(us, idx) == 0

\* a search for an entry to re-use that takes the first entry, used or not
find_unused_first(us, idx) == IF idx > Len(us.clients) THEN 0 ELSE idx

\* clients.iter_mut().enumerate().find(|(_, state)| connections == 0)
RECURSIVE find_unused(_, _)
find_unused(us, idx) ==
    IF idx > Len(us.clients) THEN 0
    ELSE IF us.states[us.clients[idx]].connections = 0 THEN idx
    ELSE find_unused(us, idx + 1)

\* Arc::new(UserState { ip, connections: Default::default() })
UserState_new(ip) == [ip |-> ip, connections |-> 0]

\* a get_or_create_user_state that never looks the address up
get_or_create_user_state_no_lookup(us, ip, ipv4_mask, ipv6_mask) ==
    LET mip == masked_ip(ip, ipv4_mask, ipv6_mask)
        new_state == Len(us.states) + 1
        states == Append(us.states, UserState_new(mip))
        unused == find_unused(us, 1)
    IN  IF unused # 0
        THEN [uid |-> unused, state |-> new_state, replaced |-> us.clients[unused],
              users |-> [clients |-> [us.clients EXCEPT ![unused] = new_state],
                         states |-> states]]
        ELSE [uid |-> Len(us.clients) + 1, state |-> new_state, replaced |-> 0,
              users |-> [clients |-> Append(us.clients, new_state),
                         states |-> states]]

\* get_or_create_user_state: the user id, the state handed out, the client
\* vector afterwards, and the state that lost its slot (0 if none did)
get_or_create_user_state(us, ip, ipv4_mask, ipv6_mask) ==
    LET mip == masked_ip(ip, ipv4_mask, ipv6_mask)
        found == find_by_ip(us, mip, 1)
        new_state == Len(us.states) + 1
        states == Append(us.states, UserState_new(mip))
        unused == find_unused(us, 1)
    IN  IF found # 0
        THEN [uid |-> found, state |-> us.clients[found], replaced |-> 0,
              users |-> us]
        ELSE IF unused # 0
        THEN [uid |-> unused, state |-> new_state, replaced |-> us.clients[unused],
              users |-> [clients |-> [us.clients EXCEPT ![unused] = new_state],
                         states |-> states]]
        ELSE [uid |-> Len(us.clients) + 1, state |-> new_state, replaced |-> 0,
              users |-> [clients |-> Append(us.clients, new_state),
                         states |-> states]]

\* user_state.connections.fetch_add(1, Ordering::Relaxed)
fetch_add(us, state) ==
    [us EXCEPT !.states[state].connections = @ + 1]

\* Drop for Connection: user_state.connections.fetch_sub(1, Relaxed); the
\* counter is a usize and wraps below 0
fetch_sub(us, state) ==
    [us EXCEPT !.states[state].connections = IF @ = 0 THEN -1 ELSE @ - 1]

----------------------------------------------------------------------------
(* SpecUsers: the empress accepts sockets from a few peer addresses while  *)
(* lackeys build and drop their connections.  get_or_create_user_state     *)
(* runs under the write lock on the empress; the fetch_add that follows    *)
(* and every fetch_sub of a dropped Connection are single atomic steps     *)
(* that interleave freely.                                                 *)

Octets(n, v) == [i \in 1..n |-> v]

\* --ipv4-mask and --ipv6-mask: the defaults, which keep every bit, and a
\* /24 with a /64
MaskSettings ==
    { [ipv4_mask |-> Octets(4, 255), ipv6_mask |-> Octets(16, 255)],
      [ipv4_mask |-> <<255, 255, 255, 0>>,
       ipv6_mask |-> Octets(8, 255) \o Octets(8, 0)] }

PeerAddresses ==
    { IpV4(10, 0, 0, 1), IpV4(10, 0, 0, 2),
      IpV6(<<253>> \o Octets(7, 0), Octets(7, 0) \o <<1>>),
      IpV6(<<253>> \o Octets(7, 0), Octets(7, 0) \o <<2>>) }

NoCall ==
    [calls |-> 0, ip |-> IpV4(0, 0, 0, 0), uid |-> 0, state |-> 0,
     replaced |-> 0, before |-> [clients |-> <<>>, states |-> <<>>]]

InitUsers ==
    /\ users = [clients |-> <<>>, states |-> <<>>]
    /\ \E masks \in MaskSettings :
          dispatch = [stage |-> "idle", ip |-> IpV4(0, 0, 0, 0), uid |-> 0,
                      state |-> 0, ipv4_mask |-> masks.ipv4_mask,
                      ipv6_mask |-> masks.ipv6_mask]
    /\ holders = <<>>
    /\ uhist = NoCall
    /\ ring = Unused /\ pending = Unused /\ fed = Unused /\ start = Unused
    /\ cmds = Unused /\ last = Unused /\ resumed = Unused
    /\ bytewise = Unused /\ pc = Unused
    /\ canvas = Unused /\ conns = Unused /\ log = Unused /\ batch = Unused
    /\ access = Unused /\ CoordUnused
    /\ PureUnused

UsersFrame == UNCHANGED <<ringVars, canvas, connVars, access, coordVars, pureVars>>

\* on_completion (NewConnection): the peer address is looked up
GetOrCreateUserState ==
    /\ dispatch.stage = "idle"
    /\ Len(holders) < MaxAccepts
    /\ \E ip \in PeerAddresses :
       \E res \in {get_or_create_user_state(users, ip, dispatch.ipv4_mask,
                                            dispatch.ipv6_mask)} :
          /\ users' = res.users
          /\ dispatch' = [dispatch EXCEPT !.stage = "got", !.ip = ip,
                                          !.uid = res.uid, !.state = res.state]
          /\ uhist' = [calls |-> uhist.calls + 1, ip |-> ip, uid |-> res.uid,
                       state |-> res.state, replaced |-> res.replaced,
                       before |-> users]
    /\ UNCHANGED holders
    /\ UsersFrame

\* on_completion (NewConnection): the counter is raised and the NewClient
\* payload holding the state is sent to a ring
FetchAddAndDispatch ==
    /\ dispatch.stage = "got"
    /\ users' = fetch_add(users, dispatch.state)
    /\ holders' = Append(holders, [kind |-> "NewClient", ip |-> dispatch.ip,
                                   uid |-> dispatch.uid,
                                   state |-> dispatch.state])
    /\ dispatch' = [dispatch EXCEPT !.stage = "idle"]
    /\ UNCHANGED uhist
    /\ UsersFrame

\* on_completion (NewClient): the payload becomes a Connection
ConnectionBuilt(h) ==
    /\ holders[h].kind = "NewClient"
    /\ holders' = [holders EXCEPT ![h].kind = "Connection"]
    /\ UNCHANGED <<users, dispatch, uhist>>
    /\ UsersFrame

\* Drop for Connection
ConnectionDropped(h) ==
    /\ holders[h].kind = "Connection"
    /\ users' = fetch_sub(users, holders[h].state)
    /\ holders' = [holders EXCEPT ![h].kind = "dropped"]
    /\ UNCHANGED <<dispatch, uhist>>
    /\ UsersFrame

\* on_teardown_completion: drop(ring_data) of a NewClient, which holds no
\* Connection yet
NewClientDiscarded(h) ==
    /\ holders[h].kind = "NewClient"
    /\ holders' = [holders EXCEPT ![h].kind = "discarded"]
    /\ UNCHANGED <<users, dispatch, uhist>>
    /\ UsersFrame

NextUsers ==
    \/ GetOrCreateUserState
    \/ FetchAddAndDispatch
    \/ \E h \in 1..Len(holders) :
          ConnectionBuilt(h) \/ ConnectionDropped(h) \/ NewClientDiscarded(h)

SpecUsers == InitUsers /\ [][NextUsers]_vars

----------------------------------------------------------------------------
(* Claims on SpecUsers *)

\* the two addresses are of one family and agree in every octet once the
\* family's mask is applied
SameAfterMask(ip1, ip2) ==
    /\ ip1.family = ip2.family
    /\ LET mask == IF ip1.family = "V4" THEN dispatch.ipv4_mask
                   ELSE dispatch.ipv6_mask
       IN  \A i \in 1..Len(mask) :
              BitAnd(ip1.octets[i], mask[i]) = BitAnd(ip2.octets[i], mask[i])

\* the holder still holds its UserState: a NewClient in flight or a Connection
Holding(h) == holders[h].kind \in {"NewClient", "Connection"}

\* C19 (UserState uniqueness): after any sequence of get_or_create_user_state
\* calls and connection closes no two entries of the client vector have the
\* same masked address; looking up, one after the other, two peer addresses
\* that are equal after the family's mask yields the same user id and the
\* same UserState and leaves the vector as the first lookup left it; and two
\* sockets from such addresses that both still hold a state hold the same.
C19_UserStateUniqueness ==
    /\ \A i, j \in 1..Len(users.clients) :
          i # j => users.states[users.clients[i]].ip
                      # users.states[users.clients[j]].ip
    /\ dispatch.stage = "idle" =>
          \A ip1, ip2 \in PeerAddresses :
             SameAfterMask(ip1, ip2) =>
                LET r1 == get_or_create_user_state(
                              users, ip1, dispatch.ipv4_mask, dispatch.ipv6_mask)
                    r2 == get_or_create_user_state(
                              r1.users, ip2, dispatch.ipv4_mask,
                              dispatch.ipv6_mask)
                IN  /\ r2.state = r1.state /\ r2.uid = r1.uid
                    /\ r2.users = r1.users
    /\ \A h1, h2 \in 1..Len(holders) :
          (Holding(h1) /\ Holding(h2)
              /\ SameAfterMask(holders[h1].ip, holders[h2].ip)) =>
             /\ holders[h1].state = holders[h2].state
             /\ holders[h1].uid = holders[h2].uid

\* two sockets from different addresses of one prefix share a UserState
\* while a second prefix has an entry of its own
C19_Witness ==
    /\ Len(users.clients) >= 2
    /\ \E h1, h2 \in 1..Len(holders) :
          /\ Holding(h1) /\ Holding(h2)
          /\ holders[h1].ip # holders[h2].ip
          /\ holders[h1].state = holders[h2].state

\* holders of UserState s that raised its counter and have not yet lowered it
CountedHolders(s) ==
    {h \in 1..Len(holders) :
        holders[h].state = s /\ holders[h].kind # "dropped"}

\* C20 (no eviction of a user in use): under every interleaving of accepts
\* with connection drops, the entry get_or_create_user_state replaced had a
\* connections counter of 0 and no NewClient or Connection held it; every
\* NewClient in flight and every live Connection finds its state in the slot
\* its user id names; and a counter is the number of holders that raised it
\* and have not dropped their Connection.
C20_NoEvictionInUse ==
    /\ uhist.replaced # 0 =>
          uhist.before.states[uhist.replaced].connections = 0
    /\ \A h \in 1..Len(holders) :
          Holding(h) =>
             /\ holders[h].uid <= Len(users.clients)
             /\ users.clients[holders[h].uid] = holders[h].state
             /\ holders[h].state # uhist.replaced
    /\ dispatch.stage = "got" =>
          users.clients[dispatch.uid] = dispatch.state
    /\ \A s \in 1..Len(users.states) :
          users.states[s].connections
             = Cardinality(CountedHolders(s))

\* an entry was replaced between a connection's drop and the fetch_add of
\* the accept, while another user's connection was live
C20_Witness ==
    /\ uhist.replaced # 0
    /\ dispatch.stage = "got"
    /\ \E h \in 1..Len(holders) :
          holders[h].kind = "dropped" /\ holders[h].state = uhist.replaced
    /\ \E h \in 1..Len(holders) : holders[h].kind = "Connection"

----------------------------------------------------------------------------
(* mod.rs, ring_coordination.rs, main.rs: the rings of one process         *)
(*                                                                         *)
(* A Box<UserData> is named by what it was allocated for: its kind, the    *)
(* ring, listening socket or accepted socket it belongs to, and for a      *)
(* Connection the number of the Read it travels with.  The raw pointer in  *)
(* an entry's user_data is that name; heap tells whether the allocation    *)
(* is live or freed.                                                       *)

\* lackey threads (--threads - 1, scaled down)
NumLackeys == 1
\* sockets the listeners accept in one run
MaxClients == 2
\* exit-class signals sent to the process in one run
MaxSignals == 2
\* seconds the clock advances in one step
TickSecs == 10

\* Duration::from_secs(10): a further exit signal within it aborts
EXIT_WINDOW_SECS == 10
\* Instant::now().sub(Duration::from_secs(20)): age of last_exit_signal at start
INITIAL_SIGNAL_AGE_SECS == 20

Lackeys == 1..NumLackeys
Empress == NumLackeys + 1
Rings == 1..Empress
Clients == 1..MaxClients

\* main.rs, empress(): fd_rx.iter().chain([ring.as_raw_fd()]) -- the lackey
\* rings in the order they were announced, then the empress's own ring
ring_fds == [i \in 1..(NumLackeys + 1) |-> i]

\* vec![socket6, socket4]
ListenSockets == <<"socket6", "socket4">>

\* user_data 0, which Ring::run ignores
NoData == [kind |-> "none", n |-> 0, gen |-> 0]
UserData_coordination(msg, n) == [kind |-> msg, n |-> n, gen |-> 0]
UserData_connection(c, gen) == [kind |-> "Connection", n |-> c, gen |-> gen]
UserData_Cancel(r) == [kind |-> "Cancel", n |-> r, gen |-> 0]

\* Box::new(value).into()
Box_new(h, ud) == [x \in DOMAIN h \cup {ud} |-> IF x = ud THEN "live" ELSE h[x]]
\* the Box goes out of scope
Box_drop(h, ud) == [h EXCEPT ![ud] = "freed"]

Cqe(ud, res, more) == [user_data |-> ud, res |-> res, more |-> more]
Sqe(op, fd, ud, data) == [op |-> op, fd |-> fd, user_data |-> ud, data |-> data]

\* what the peer of accepted socket c sends, and where it connects from
ClientStream(c) == PxSet(c - 1, 0, Grey2)
PeerAddress(c) ==
    IF c % 2 = 1 THEN IpV4(10, 0, 0, c)
    ELSE IpV6(<<253>> \o Octets(7, 0), Octets(7, 0) \o <<c>>)
\* the listener a peer's family reaches (socket6 is v6-only)
ListenerOf(c) == IF PeerAddress(c).family = "V6" THEN 1 ELSE 2

\* no Read in flight on an accepted socket
NoRead == [user_data |-> NoData, ring |-> 0]

NoSocket ==
    [state |-> "none", ring |-> 0, uid |-> 0, user_state |-> 0, gen |-> 0,
     sent |-> FALSE, conn |-> [command_ring |-> CommandRing_new(MaxRingLen),
                               user_offset |-> <<0, 0>>, user_id |-> 0]]

InitShutdown ==
   
    /\ PureUnused
    /\ canvas = Canvas_open(CanvasWidth, CanvasHeight)
    /\ users = [clients |-> <<>>, states |-> <<>>]
    /\ uring = [r \in Rings |-> [sq |-> <<>>, cq |-> <<>>]]
    /\ run = [r \in Rings |-> [phase |-> "new", waiting |-> FALSE, todo |-> 0,
                               result |-> "Ok"]]
    /\ kernel = [accept |-> [s \in 1..Len(ListenSockets) |-> NoData],
                 signal_read |-> NoData, signals |-> 0,
                 reads |-> [c \in Clients |-> NoRead],
                 now |-> INITIAL_SIGNAL_AGE_SECS]
    /\ heap = [x \in {} |-> "live"]
    /\ coord = [ring_fds_cycle_idx |-> 0, last_exit_signal |-> 0,
                ipv4_mask |-> Octets(4, 255), ipv6_mask |-> Octets(16, 255)]
    /\ socks = [c \in Clients |-> NoSocket]
    /\ proc = "running"
    /\ hist = [accepted |-> 0, signals_sent |-> 0, signals_handled |-> 0,
               canvas_at_signal |-> canvas, faults |-> {},
               delivered |-> [c \in Clients |-> <<>>],
               exits |-> [r \in Rings |-> 0], late_signal |-> FALSE,
               handled |-> <<>>]
    /\ ring = Unused /\ pending = Unused /\ fed = Unused /\ start = Unused
    /\ cmds = Unused /\ last = Unused /\ resumed = Unused
    /\ bytewise = Unused /\ pc = Unused
    /\ conns = Unused /\ log = Unused /\ batch = Unused /\ access = Unused
    /\ dispatch = Unused /\ holders = Unused /\ uhist = Unused

ShutdownFrame ==
    UNCHANGED <<ringVars, connVars, access, dispatch, holders, uhist,
                pureVars>>

----------------------------------------------------------------------------
(* What io_uring does with the entries a ring submits *)

\* the completions AsyncCancel2(any) provokes on ring r: one per operation
\* in flight there, each carrying that operation's user_data
CancelledOps(k, r) ==
    LET accepts == SelectSeq([s \in 1..Len(ListenSockets) |-> k.accept[s]],
                             LAMBDA ud : r = Empress /\ ud # NoData)
        signal == IF r = Empress /\ k.signal_read # NoData
                  THEN <<k.signal_read>> ELSE <<>>
        reads == SelectSeq([c \in 1..MaxClients |-> k.reads[c]],
                           LAMBDA rd : rd.ring = r)
    IN  accepts \o signal \o [i \in 1..Len(reads) |-> reads[i].user_data]

\* one submitted entry; w holds the kernel's state, every ring's completion
\* queue and the rings each NewClient payload was posted to
submit_entry(w, r, e, closed) ==
    CASE e.op = "AcceptMulti" ->
            [w EXCEPT !.kernel.accept[e.fd] = e.user_data]
      [] e.op = "ReadSignal" ->
            IF w.kernel.signals > 0
            THEN [w EXCEPT !.kernel.signals = @ - 1,
                           !.cq[r] = Append(@, Cqe(e.user_data, 1, FALSE))]
            ELSE [w EXCEPT !.kernel.signal_read = e.user_data]
      [] e.op = "Read" ->
            [w EXCEPT !.kernel.reads[e.fd] =
                          [user_data |-> e.user_data, ring |-> r]]
      [] e.op = "MsgRingData" ->
            IF e.fd \in closed
            THEN [w EXCEPT !.cq[r] = Append(@, Cqe(NoData, -1, FALSE))]
            ELSE LET posted == [w EXCEPT !.cq[e.fd] =
                                            Append(@, Cqe(e.data, 0, TRUE))]
                     told == [posted EXCEPT !.cq[r] =
                                            Append(@, Cqe(NoData, 0, FALSE))]
                 IN  IF e.data.kind = "NewClient"
                     THEN [told EXCEPT !.delivered[e.data.n] = Append(@, e.fd)]
                     ELSE told
      [] e.op = "AsyncCancel" ->
            LET ops == CancelledOps(w.kernel, r)
                cqes == [i \in 1..Len(ops) |-> Cqe(ops[i], -1, FALSE)]
            IN  [w EXCEPT
                    !.kernel.accept =
                        IF r = Empress
                        THEN [s \in 1..Len(ListenSockets) |-> NoData] ELSE @,
                    !.kernel.signal_read = IF r = Empress THEN NoData ELSE @,
                    !.kernel.reads =
                        [c \in Clients |->
                            IF w.kernel.reads[c].ring = r THEN NoRead
                            ELSE w.kernel.reads[c]],
                    !.cq[r] = @ \o cqes
                                \o <<Cqe(e.user_data, Len(ops), FALSE)>>]

\* submit.submit_and_wait(1): the entries of the submission queue, in order
RECURSIVE kernel_submit(_, _, _, _)
kernel_submit(w, r, sqes, closed) ==
    IF sqes = <<>> THEN w
    ELSE kernel_submit(submit_entry(w, r, Head(sqes), closed), r, Tail(sqes),
                       closed)

----------------------------------------------------------------------------
(* SpecShutdown: Ring::run on the empress and on every lackey *)

AllReturned == \A r \in Rings : run[r].phase = "returned"

\* the process and its peers are still there
Alive == proc = "running" /\ ~AllReturned

\* Ring::run, before the loop: the operations' setup()
RingSetup(r) ==
    /\ proc = "running"
    /\ run[r].phase = "new"
    /\ run' = [run EXCEPT ![r].phase = "ring_loop"]
    /\ IF r = Empress
       THEN LET accepts == [s \in 1..Len(ListenSockets) |->
                               Sqe("AcceptMulti", s,
                                   UserData_coordination("NewConnection", s),
                                   NoData)]
                signal == Sqe("ReadSignal", 0,
                              UserData_coordination("Signal", 0), NoData)
                pushed == Append(accepts, signal)
            IN  /\ uring' = [uring EXCEPT ![r].sq = @ \o pushed]
                /\ heap' = [x \in DOMAIN heap
                                    \cup {pushed[i].user_data :
                                             i \in 1..Len(pushed)} |->
                               IF x \in DOMAIN heap THEN heap[x] ELSE "live"]
       ELSE UNCHANGED <<uring, heap>>
    /\ UNCHANGED <<canvas, users, kernel, coord, socks, proc, hist>>
    /\ ShutdownFrame

\* sq.sync(); submit.submit_and_wait(1)
RingSubmit(r) ==
    /\ proc = "running"
    /\ run[r].phase \in {"ring_loop", "teardown"}
    /\ ~run[r].waiting /\ run[r].todo = 0
    /\ \E w \in {kernel_submit(
                    [kernel |-> kernel, cq |-> [q \in Rings |-> uring[q].cq],
                     delivered |-> hist.delivered],
                    r, uring[r].sq,
                    {q \in Rings : run[q].phase = "returned"})} :
          /\ uring' = [q \in Rings |->
                          [sq |-> IF q = r THEN <<>> ELSE uring[q].sq,
                           cq |-> w.cq[q]]]
          /\ kernel' = w.kernel
          /\ hist' = [hist EXCEPT !.delivered = w.delivered]
    /\ run' = [run EXCEPT ![r].waiting = TRUE]
    /\ UNCHANGED <<canvas, users, heap, coord, socks, proc>>
    /\ ShutdownFrame

\* the loop over cq has an entry to handle: the first one after
\* submit_and_wait returned, or a further one of the batch cq.sync() found
Taking(r, phase) ==
    /\ proc = "running"
    /\ run[r].phase = phase
    /\ uring[r].cq # <<>>
    /\ run[r].waiting \/ run[r].todo > 0

\* the position in run() once that entry is handled
Taken(r) ==
    [run[r] EXCEPT !.waiting = FALSE,
                   !.todo = IF run[r].waiting THEN Len(uring[r].cq) - 1
                            ELSE @ - 1]

\* the queues of ring r once the head completion is consumed and the
\* handler has pushed `pushed`
Queues(r, pushed) ==
    [uring EXCEPT ![r] = [sq |-> uring[r].sq \o pushed,
                          cq |-> Tail(uring[r].cq)]]

\* if cqe.user_data() == 0 { continue; }, in either loop
IgnoredCompletion(r) ==
    /\ \E phase \in {"ring_loop", "teardown"} : Taking(r, phase)
    /\ Head(uring[r].cq).user_data = NoData
    /\ uring' = Queues(r, <<>>)
    /\ run' = [run EXCEPT ![r] = Taken(r)]
    /\ UNCHANGED <<canvas, users, kernel, heap, coord, socks, proc, hist>>
    /\ ShutdownFrame

\* a round-robin that always picks the first ring fd
next_ring_fd_first(ring_fds_cycle_idx) == ring_fds[1]

\* ring_fds.get(*ring_fds_cycle_idx % ring_fds.len()).unwrap()
next_ring_fd(ring_fds_cycle_idx) ==
    ring_fds[(ring_fds_cycle_idx % Len(ring_fds)) + 1]

\* RingCoordination::on_completion, (NewConnection, Empress): the accepted
\* socket is lost early, or its NewClient payload is sent to the next ring
\* fd.  Returns Some(NewConnection): the Box stays allocated
OnNewConnection(r) ==
    /\ Taking(r, "ring_loop")
    /\ Head(uring[r].cq).user_data.kind = "NewConnection"
    /\ heap[Head(uring[r].cq).user_data] = "live"
    /\ Head(uring[r].cq).res >= 0
    /\ \E c \in {Head(uring[r].cq).res} :
       \E peer_addr \in {"Ok", "Err"} :
          IF peer_addr = "Err"
          THEN /\ socks' = [socks EXCEPT ![c].state = "closed"]
               /\ uring' = Queues(r, <<>>)
               /\ hist' = [hist EXCEPT !.handled =
                              Append(@, [sent |-> FALSE, fd |-> 0])]
               /\ UNCHANGED <<users, heap, coord>>
          ELSE \E got \in {get_or_create_user_state(
                              users, PeerAddress(c), coord.ipv4_mask,
                              coord.ipv6_mask)} :
               \E fd \in {next_ring_fd(coord.ring_fds_cycle_idx)} :
                  /\ users' = fetch_add(got.users, got.state)
                  /\ hist' = [hist EXCEPT !.handled =
                                 Append(@, [sent |-> TRUE, fd |-> fd])]
                  /\ coord' = [coord EXCEPT !.ring_fds_cycle_idx = @ + 1]
                  /\ heap' = Box_new(heap, UserData_coordination("NewClient", c))
                  /\ socks' = [socks EXCEPT ![c].state = "payload",
                                            ![c].uid = got.uid,
                                            ![c].user_state = got.state]
                  /\ uring' = Queues(r,
                        <<Sqe("MsgRingData", fd, NoData,
                              UserData_coordination("NewClient", c))>>)
    /\ run' = [run EXCEPT ![r] = Taken(r)]
    /\ UNCHANGED <<canvas, kernel, proc>>
    /\ ShutdownFrame

\* the Exit messages of the Signal arm, one per ring fd
exit_messages ==
    [i \in 1..Len(ring_fds) |->
        Sqe("MsgRingData", ring_fds[i], NoData,
            UserData_coordination("Exit", ring_fds[i]))]

\* RingCoordination::on_completion, (Signal, Empress).  Returns None: the
\* Box is freed, and no further read of the signal fd is submitted
OnSignal(r) ==
    /\ Taking(r, "ring_loop")
    /\ Head(uring[r].cq).user_data.kind = "Signal"
    /\ heap[Head(uring[r].cq).user_data] = "live"
    /\ IF kernel.now - coord.last_exit_signal < EXIT_WINDOW_SECS
       THEN /\ proc' = "exit(-1)"
            /\ UNCHANGED <<uring, run, heap, coord, hist>>
       ELSE /\ coord' = [coord EXCEPT !.last_exit_signal = kernel.now]
            /\ uring' = Queues(r, exit_messages)
            /\ heap' = Box_drop(
                          [x \in DOMAIN heap
                                    \cup {exit_messages[i].data :
                                             i \in 1..Len(exit_messages)} |->
                              IF x \in DOMAIN heap THEN heap[x] ELSE "live"],
                          Head(uring[r].cq).user_data)
            /\ run' = [run EXCEPT ![r] = Taken(r)]
            /\ hist' = [hist EXCEPT
                          !.signals_handled = @ + 1,
                          !.canvas_at_signal =
                              IF hist.signals_handled = 0 THEN canvas ELSE @]
            /\ UNCHANGED proc
    /\ UNCHANGED <<canvas, users, kernel, socks>>
    /\ ShutdownFrame

\* RingCoordination::on_completion, (NewClient, _): on whichever ring the
\* payload arrives a Connection is built and its first Read submitted
OnNewClient(r) ==
    /\ Taking(r, "ring_loop")
    /\ Head(uring[r].cq).user_data.kind = "NewClient"
    /\ heap[Head(uring[r].cq).user_data] = "live"
    /\ \E c \in {Head(uring[r].cq).user_data.n} :
          /\ socks' = [socks EXCEPT
                ![c].state = "connection", ![c].ring = r, ![c].gen = 1,
                ![c].conn = [command_ring |-> CommandRing_new(MaxRingLen),
                             user_offset |-> <<0, 0>>,
                             user_id |-> socks[c].uid]]
          /\ heap' = Box_drop(Box_new(heap, UserData_connection(c, 1)),
                              Head(uring[r].cq).user_data)
          /\ uring' = Queues(r, <<Sqe("Read", c, UserData_connection(c, 1),
                                      NoData)>>)
    /\ run' = [run EXCEPT ![r] = Taken(r)]
    /\ UNCHANGED <<canvas, users, kernel, coord, proc, hist>>
    /\ ShutdownFrame

\* the AsyncCancel2(any) entry pushed when the ring loop is left
cancel_entry(r) == Sqe("AsyncCancel", r, UserData_Cancel(r), NoData)

\* RingCoordination::on_completion, (Exit, _): ControlFlow::Exit breaks the
\* ring loop; run() pushes the cancel and enters the teardown loop
OnExit(r) ==
    /\ Taking(r, "ring_loop")
    /\ Head(uring[r].cq).user_data.kind = "Exit"
    /\ heap[Head(uring[r].cq).user_data] = "live"
    /\ run' = [run EXCEPT ![r].phase = "teardown", ![r].waiting = FALSE,
                          ![r].todo = 0]
    /\ heap' = Box_drop(Box_new(heap, UserData_Cancel(r)),
                        Head(uring[r].cq).user_data)
    /\ uring' = Queues(r, <<cancel_entry(r)>>)
    /\ hist' = [hist EXCEPT !.exits[r] = @ + 1]
    /\ UNCHANGED <<canvas, users, kernel, coord, socks, proc>>
    /\ ShutdownFrame

\* PixelflutConnectionHandler::on_completion: n > 0 parses and executes
\* and, unless the connection was dropped, submits the next Read with the
\* Connection in a new Box; n <= 0 drops the Connection
OnConnectionRead(r) ==
    /\ Taking(r, "ring_loop")
    /\ Head(uring[r].cq).user_data.kind = "Connection"
    /\ heap[Head(uring[r].cq).user_data] = "live"
    /\ \E c \in {Head(uring[r].cq).user_data.n} :
          IF Head(uring[r].cq).res > 0
          THEN \E outside \in Outside(canvas) :
               \E res \in {on_read(socks[c].conn, canvas, c,
                                   SubSeq(ClientStream(c), 1,
                                          Head(uring[r].cq).res),
                                   outside)} :
                  /\ canvas' = res.canvas
                  /\ IF res.alive
                     THEN /\ socks' = [socks EXCEPT
                                ![c].conn = [command_ring |-> res.conn.command_ring,
                                             user_offset |-> res.conn.user_offset,
                                             user_id |-> res.conn.user_id],
                                ![c].gen = @ + 1]
                          /\ heap' = Box_drop(
                                Box_new(heap,
                                        UserData_connection(c, socks[c].gen + 1)),
                                Head(uring[r].cq).user_data)
                          /\ uring' = Queues(r,
                                <<Sqe("Read", c,
                                      UserData_connection(c, socks[c].gen + 1),
                                      NoData)>>)
                          /\ UNCHANGED users
                     ELSE /\ socks' = [socks EXCEPT ![c].state = "closed"]
                          /\ users' = fetch_sub(users, socks[c].user_state)
                          /\ heap' = Box_drop(heap, Head(uring[r].cq).user_data)
                          /\ uring' = Queues(r, <<>>)
          ELSE /\ socks' = [socks EXCEPT ![c].state = "closed"]
               /\ users' = fetch_sub(users, socks[c].user_state)
               /\ heap' = Box_drop(heap, Head(uring[r].cq).user_data)
               /\ uring' = Queues(r, <<>>)
               /\ UNCHANGED canvas
    /\ run' = [run EXCEPT ![r] = Taken(r)]
    /\ UNCHANGED <<kernel, coord, proc, hist>>
    /\ ShutdownFrame

\* UserData::from_raw(cqe.user_data()) in the teardown loop: the Box a live
\* pointer names is sound; one whose Box was freed already is dereferenced
\* and freed again, which the allocator aborts on or does not notice
ReclaimOutcomes(ud) ==
    IF heap[ud] = "live" THEN {"sound"} ELSE {"abort", "unnoticed"}

Faults(outcome) ==
    IF outcome = "sound" THEN {} ELSE {"use_after_free", "double_free"}

\* teardown loop, a coordination payload: on_teardown_completion drops the
\* message (a NewClient with its socket), and the Box is freed.  The socket
\* a NewConnection completion reports is never wrapped
TeardownCoordination(r) ==
    /\ Taking(r, "teardown")
    /\ Head(uring[r].cq).user_data.kind
          \in {"NewConnection", "Signal", "NewClient", "Exit"}
    /\ \E cqe \in {Head(uring[r].cq)} :
       \E outcome \in ReclaimOutcomes(cqe.user_data) :
          /\ hist' = [hist EXCEPT !.faults = @ \cup Faults(outcome)]
          /\ IF outcome = "abort"
             THEN /\ proc' = "aborted"
                  /\ UNCHANGED <<uring, run, heap, socks>>
             ELSE /\ uring' = Queues(r, <<>>)
                  /\ run' = [run EXCEPT ![r] = Taken(r)]
                  /\ heap' = Box_drop(heap, cqe.user_data)
                  /\ socks' =
                        IF cqe.user_data.kind = "NewClient"
                        THEN [socks EXCEPT ![cqe.user_data.n].state = "closed"]
                        ELSE IF cqe.user_data.kind = "NewConnection"
                                /\ cqe.res >= 0
                        THEN [socks EXCEPT ![cqe.res].state = "orphaned"]
                        ELSE socks
                  /\ UNCHANGED proc
    /\ UNCHANGED <<canvas, users, kernel, coord>>
    /\ ShutdownFrame

\* teardown loop, a Connection: on_teardown_completion drops it
TeardownConnection(r) ==
    /\ Taking(r, "teardown")
    /\ Head(uring[r].cq).user_data.kind = "Connection"
    /\ heap[Head(uring[r].cq).user_data] = "live"
    /\ \E c \in {Head(uring[r].cq).user_data.n} :
          /\ socks' = [socks EXCEPT ![c].state = "closed"]
          /\ users' = fetch_sub(users, socks[c].user_state)
    /\ heap' = Box_drop(heap, Head(uring[r].cq).user_data)
    /\ uring' = Queues(r, <<>>)
    /\ run' = [run EXCEPT ![r] = Taken(r)]
    /\ UNCHANGED <<canvas, kernel, coord, proc, hist>>
    /\ ShutdownFrame

\* teardown loop, UserData::Cancel(u64::MAX): break 'cancel_loop, run()
\* returns result and the worker drops its ring
TeardownCancel(r) ==
    /\ Taking(r, "teardown")
    /\ Head(uring[r].cq).user_data.kind = "Cancel"
    /\ heap[Head(uring[r].cq).user_data] = "live"
    /\ heap' = Box_drop(heap, Head(uring[r].cq).user_data)
    /\ uring' = Queues(r, <<>>)
    /\ run' = [run EXCEPT ![r].phase = "returned", ![r].waiting = FALSE,
                          ![r].todo = 0]
    /\ UNCHANGED <<canvas, users, kernel, coord, socks, proc, hist>>
    /\ ShutdownFrame

----------------------------------------------------------------------------
(* The peers, the signals and the clock *)

\* a peer connects: the multi-shot accept of its listener completes once
\* more, with the new socket as result and the accept's user_data; the
\* kernel keeps the accept armed (IORING_CQE_F_MORE) or ends the stream
\* with this completion
ClientConnects ==
    /\ Alive
    /\ hist.accepted < MaxClients
    /\ \E c \in {hist.accepted + 1} :
       \E more \in BOOLEAN :
          /\ kernel.accept[ListenerOf(c)] # NoData
          /\ uring' = [uring EXCEPT ![Empress].cq =
                          Append(@, Cqe(kernel.accept[ListenerOf(c)], c, more))]
          /\ kernel' = IF more THEN kernel
                       ELSE [kernel EXCEPT !.accept[ListenerOf(c)] = NoData]
          /\ socks' = [socks EXCEPT ![c].state = "accepted"]
    /\ hist' = [hist EXCEPT !.accepted = @ + 1]
    /\ UNCHANGED <<canvas, users, run, heap, coord, proc>>
    /\ ShutdownFrame

\* SIGINT, SIGQUIT or SIGTERM is sent: a read of the signal fd in flight
\* completes, otherwise the signal stays pending in the signal fd
SignalArrives ==
    /\ Alive
    /\ hist.signals_sent < MaxSignals
    /\ IF kernel.signal_read # NoData
       THEN /\ uring' = [uring EXCEPT ![Empress].cq =
                            Append(@, Cqe(kernel.signal_read, 1, FALSE))]
            /\ kernel' = [kernel EXCEPT !.signal_read = NoData]
       ELSE /\ kernel' = [kernel EXCEPT !.signals = @ + 1]
            /\ UNCHANGED uring
    /\ hist' = [hist EXCEPT
                  !.signals_sent = @ + 1,
                  !.late_signal =
                      @ \/ (/\ hist.signals_handled > 0
                            /\ kernel.now - coord.last_exit_signal
                                  < EXIT_WINDOW_SECS)]
    /\ UNCHANGED <<canvas, users, run, heap, coord, socks, proc>>
    /\ ShutdownFrame

\* the peer's command line arrives: the Read in flight completes with n > 0
ReadCompletes(c) ==
    /\ Alive
    /\ kernel.reads[c] # NoRead
    /\ ~socks[c].sent
    /\ uring' = [uring EXCEPT ![kernel.reads[c].ring].cq =
                    Append(@, Cqe(kernel.reads[c].user_data,
                                  Len(ClientStream(c)), FALSE))]
    /\ kernel' = [kernel EXCEPT !.reads[c] = NoRead]
    /\ socks' = [socks EXCEPT ![c].sent = TRUE]
    /\ UNCHANGED <<canvas, users, run, heap, coord, proc, hist>>
    /\ ShutdownFrame

\* the peer closes: the Read in flight completes with 0
PeerCloses(c) ==
    /\ Alive
    /\ kernel.reads[c] # NoRead
    /\ socks[c].sent
    /\ uring' = [uring EXCEPT ![kernel.reads[c].ring].cq =
                    Append(@, Cqe(kernel.reads[c].user_data, 0, FALSE))]
    /\ kernel' = [kernel EXCEPT !.reads[c] = NoRead]
    /\ UNCHANGED <<canvas, users, run, heap, coord, socks, proc, hist>>
    /\ ShutdownFrame

\* time passes after the first exit signal was handled
Tick ==
    /\ Alive
    /\ hist.signals_handled > 0
    /\ kernel.now - coord.last_exit_signal < EXIT_WINDOW_SECS
    /\ kernel' = [kernel EXCEPT !.now = @ + TickSecs]
    /\ UNCHANGED <<canvas, users, uring, run, heap, coord, socks, proc, hist>>
    /\ ShutdownFrame

RingStep(r) ==
    \/ RingSetup(r)
    \/ RingSubmit(r)
    \/ IgnoredCompletion(r)
    \/ OnNewConnection(r)
    \/ OnSignal(r)
    \/ OnNewClient(r)
    \/ OnExit(r)
    \/ OnConnectionRead(r)
    \/ TeardownCoordination(r)
    \/ TeardownConnection(r)
    \/ TeardownCancel(r)

NextShutdown ==
    \/ \E r \in Rings : RingStep(r)
    \/ ClientConnects
    \/ SignalArrives
    \/ \E c \in Clients : ReadCompletes(c) \/ PeerCloses(c)
    \/ Tick

SpecShutdown == InitShutdown /\ [][NextShutdown]_vars

\* the steps of run() other than the handling of a connection's read
\* completion
RingStepOther(r) ==
    \/ RingSetup(r)
    \/ RingSubmit(r)
    \/ IgnoredCompletion(r)
    \/ OnNewConnection(r)
    \/ OnSignal(r)
    \/ OnNewClient(r)
    \/ OnExit(r)
    \/ TeardownCoordination(r)
    \/ TeardownConnection(r)
    \/ TeardownCancel(r)

\* the ring loop has a connection's read completion to handle: the state
\* in which OnConnectionRead(r) is enabled
ReadReady(r) ==
    /\ Taking(r, "ring_loop")
    /\ Head(uring[r].cq).user_data.kind = "Connection"

\* every ring runs on a thread of its own, pinned to a core: a ring that
\* can take a step of run() takes one.  The position of a thread changes
\* only by its own steps, so weak fairness of the two kinds of step is weak
\* fairness of RingStep(r); for OnConnectionRead it is written out, with
\* ReadReady(r) for ENABLED <<OnConnectionRead(r)>>_vars
SpecShutdownFair ==
    /\ SpecShutdown
    /\ \A r \in Rings :
          /\ WF_vars(RingStepOther(r))
          /\ ([]<>~ReadReady(r)) \/ ([]<><<OnConnectionRead(r)>>_vars)

----------------------------------------------------------------------------
(* Claims on SpecShutdown *)

\* every ring has left run() with Ok
AllReturnedOk ==
    \A r \in Rings : run[r].phase = "returned" /\ run[r].result = "Ok"

\* an Exit message was made for every ring fd, the empress's own included
ExitSentToAll ==
    \A r \in Rings : UserData_coordination("Exit", r) \in DOMAIN heap

\* C13 (graceful shutdown terminates): once the empress has handled the
\* first exit-class signal an Exit message has been sent to every lackey
\* ring and to the empress's own ring, and from then on every ring
\* eventually observes Exit, runs its teardown, sees the cancel sentinel
\* and returns from run() with Ok.
C13_GracefulShutdown ==
    /\ [](hist.signals_handled > 0 => ExitSentToAll)
    /\ (hist.signals_handled > 0) ~> AllReturnedOk

\* the pixel client c's stream sets is as it was when the empress handled
\* the first exit-class signal
PixelAsAtSignal(c) ==
    /\ canvas.data[coords_to_index(canvas, c - 1, 0)]
         = hist.canvas_at_signal.data[coords_to_index(canvas, c - 1, 0)]
    /\ canvas.user_id_map[coords_to_index(canvas, c - 1, 0)]
         = hist.canvas_at_signal.user_id_map[coords_to_index(canvas, c - 1, 0)]

\* C14 (no pixel writes after the exit signal): once the empress has
\* handled the exit-class signal, no lackey executes a SetPixel that
\* becomes visible in the canvas: the pixel of every connection a lackey
\* ring owns is as it was at the signal.
C14_NoPixelWritesAfterSignal ==
    hist.signals_handled > 0 =>
        \A c \in Clients : socks[c].ring \in Lackeys => PixelAsAtSignal(c)

\* a read of the signal fd is submitted, in flight or completed and not yet
\* handled
SignalReadArmed ==
    \/ kernel.signal_read # NoData
    \/ \E i \in 1..Len(uring[Empress].sq) :
          uring[Empress].sq[i].user_data.kind = "Signal"
    \/ \E i \in 1..Len(uring[Empress].cq) :
          uring[Empress].cq[i].user_data.kind = "Signal"

\* C15 (second signal aborts): after handling the first exit-class signal
\* the empress, as long as it runs its ring loop, has the read of the
\* signal fd armed again, so that a second exit-class signal within 10 s
\* is read and aborts the process with exit(-1); the process is aborted
\* only by such a second signal, never by the first.
C15_SecondSignalAborts ==
    /\ (/\ hist.signals_handled > 0
        /\ proc = "running"
        /\ run[Empress].phase = "ring_loop") => SignalReadArmed
    /\ proc = "exit(-1)" => hist.late_signal

\* C16 (exactly-once hand-off): every NewClient payload the empress creates
\* for an accepted socket is delivered to exactly one ring exactly once and
\* is there either turned into a Connection or destroyed: no payload is
\* posted twice or to two rings, a Connection lives on the ring its payload
\* was posted to, and when every ring has returned no payload is left
\* undelivered or unhandled with its socket open.
C16_ExactlyOnceHandOff ==
    \A c \in Clients :
        /\ Len(hist.delivered[c]) <= 1
        /\ socks[c].state = "connection" =>
              hist.delivered[c] = <<socks[c].ring>>
        /\ AllReturned => socks[c].state # "payload"

\* C17 (connections live only on lackeys): every accepted socket is
\* dispatched to a lackey ring and is owned by a lackey afterwards: no
\* NewClient payload is posted to the empress ring, and no Connection
\* (with its reads) lives on the empress ring.
C17_ConnectionsOnlyOnLackeys ==
    \A c \in Clients :
        /\ \A i \in 1..Len(hist.delivered[c]) :
              hist.delivered[c][i] \in Lackeys
        /\ socks[c].state = "connection" => socks[c].ring \in Lackeys
        /\ kernel.reads[c] # NoRead => kernel.reads[c].ring \in Lackeys

\* C18 (payload ownership): every heap payload encoded as io_uring
\* user_data is reclaimed exactly once: over every sequence of completions
\* (several completions of one multi-shot accept, payloads re-used via
\* Some(new_payload), completions handled during teardown) no payload
\* allocation is freed twice and none is dereferenced after it was freed.
C18_PayloadOwnership == hist.faults = {}

\* the last get_or_create_user_state call: the masked address looked up,
\* whether the vector held it, and the slots whose state had no connection
LastMasked == masked_ip(uhist.ip, dispatch.ipv4_mask, dispatch.ipv6_mask)

LastKnown ==
    \E i \in 1..Len(uhist.before.clients) :
        uhist.before.states[uhist.before.clients[i]].ip = LastMasked

LastVacant ==
    {i \in 1..Len(uhist.before.clients) :
        uhist.before.states[uhist.before.clients[i]].connections = 0}

\* C21 (UserState slot reuse): when a connection arrives from a masked
\* address the client vector does not hold and some entry has
\* connections == 0, the new state takes such a vacated slot, its 1-based
\* index is the user id, and the vector keeps its length and its other
\* entries; the vector grows, by one, only when the address is new and
\* every entry has connections > 0.
C21_SlotReuse ==
    uhist.calls > 0 =>
        /\ (~LastKnown /\ LastVacant # {}) =>
              /\ uhist.uid \in LastVacant
              /\ Len(users.clients) = Len(uhist.before.clients)
              /\ users.clients[uhist.uid] = uhist.state
              /\ users.states[uhist.state].ip = LastMasked
              /\ \A i \in 1..Len(users.clients) :
                    i # uhist.uid => users.clients[i] = uhist.before.clients[i]
        /\ (~LastKnown /\ LastVacant = {}) =>
              /\ users.clients = Append(uhist.before.clients, uhist.state)
              /\ uhist.uid = Len(users.clients)
              /\ users.states[uhist.state].ip = LastMasked
        /\ Len(users.clients) # Len(uhist.before.clients) =>
              ~LastKnown /\ LastVacant = {}

\* a new address took a vacated slot although other entries were in use
C21_Witness ==
    /\ uhist.calls > 0
    /\ ~LastKnown
    /\ LastVacant # {}
    /\ Len(uhist.before.clients) > 1
    /\ uhist.replaced # 0

\* a new address made the vector grow: every entry was in use
C21_WitnessGrow ==
    /\ uhist.calls > 0
    /\ ~LastKnown
    /\ LastVacant = {}
    /\ Len(uhist.before.clients) > 0

\* the accepted sockets that still count for state s: NewClient payloads
\* in flight and live Connections
LiveHolders(s) == {h \in 1..Len(holders) : Holding(h) /\ holders[h].state = s}

\* C22 (connection accounting): every increment of a UserState counter is
\* undone exactly once when its connection ends, on whichever path (a
\* dropped Connection, or a NewClient payload dropped before a Connection
\* is built): the counter never underflows, equals the number of accepted
\* sockets of that state that are not gone yet, and so is 0 once all of
\* them are gone.
C22_ConnectionAccounting ==
    \A s \in 1..Len(users.states) :
        /\ users.states[s].connections >= 0
        /\ users.states[s].connections = Cardinality(LiveHolders(s))

----------------------------------------------------------------------------
(* Further claims on SpecConn *)

\* the number of bytes of B up to and including its k-th line feed
RECURSIVE EndOfLine(_, _, _)
EndOfLine(B, k, i) ==
    IF k = 0 THEN i - 1
    ELSE IF i > Len(B) THEN Len(B)
    ELSE EndOfLine(B, IF B[i] = "\n" THEN k - 1 ELSE k, i + 1)

\* the bytes connection c has received and no returned command has consumed
Unconsumed(c) ==
    conns[c].delivered - EndOfLine(conns[c].input, Len(log[c]), 1)

\* the ring of connection c holds as many unconsumed bytes as it has room
RingFull(c) ==
    /\ conns[c].state = "open"
    /\ Unconsumed(c) = conns[c].command_ring.len

\* C23 (back-pressure): when a connection's CommandRing is full after the
\* parse loop, no Read is submitted for that connection (none is in flight
\* while the ring is full), the connection stays open and the ring still
\* offers every buffered byte.
C23_BackPressure ==
    \A c \in Conns :
        /\ RingFull(c) =>
              /\ ~conns[c].inflight
              /\ available_to_read(conns[c].command_ring)
                    = conns[c].command_ring.len
        /\ (/\ batch.kind = "read" /\ batch.fd = c
            /\ batch.end = "MoreDataRequired"
            /\ Unconsumed(c) = conns[c].command_ring.len) =>
              conns[c].state = "open"

\* the command type a reply buffer answers
ReplyType(data) ==
    IF IsSizeReply(data) THEN "Size"
    ELSE IF IsHelpReply(data) THEN "Help" ELSE "GetPixel"

----------------------------------------------------------------------------
(* pfparse: NaiveParser *)

\* char::to_digit for a radix up to 16: Some(digit) or None
to_digit(c, radix) ==
    LET v == hex_lookup(c)
    IN  IF v < radix THEN [some |-> TRUE, digit |-> v]
        ELSE [some |-> FALSE, digit |-> 0]

\* the outcome of a conversion from text
ParsedInt(value) == [ok |-> TRUE, value |-> value]
ParseIntError == [ok |-> FALSE, value |-> 0]

\* the digit loop of from_str_radix for a type whose values fit a TLC
\* integer: u8 and u16, with max the type's MAX
RECURSIVE from_digits(_, _, _, _, _)
from_digits(digits, i, radix, max, value) ==
    IF i > Len(digits) THEN ParsedInt(value)
    ELSE LET d == to_digit(digits[i], radix)
         IN  IF ~d.some THEN ParseIntError
             ELSE IF value * radix + d.digit > max THEN ParseIntError
             ELSE from_digits(digits, i + 1, radix, max,
                              value * radix + d.digit)

\* the text after an optional sign; <<>> where from_str_radix gives up
unsigned_digits(src) ==
    IF src = <<>> THEN <<>>
    ELSE IF src[1] \in {"+", "-"} /\ Len(src) = 1 THEN <<>>
    ELSE IF src[1] = "+" THEN SubSeq(src, 2, Len(src))
    ELSE src

\* u16::from_str and u8::from_str_radix
from_str_radix(src, radix, max) ==
    IF unsigned_digits(src) = <<>> THEN ParseIntError
    ELSE from_digits(unsigned_digits(src), 1, radix, max, 0)

u16_from_str(src) == from_str_radix(src, 10, 65535)

u8_from_str_radix(src, radix) == from_str_radix(src, radix, 255)

\* the digit loop of u32::from_str_radix(src, 16)
RECURSIVE u32_from_hex_digits(_, _, _)
u32_from_hex_digits(digits, i, value) ==
    IF i > Len(digits) THEN ParsedInt(value)
    ELSE LET d == to_digit(digits[i], 16)
         IN  IF ~d.some THEN ParseIntError
             ELSE IF value.hi >= 4096 THEN ParseIntError
             ELSE u32_from_hex_digits(digits, i + 1,
                                      u32_shl4_add(value, d.digit))

u32_from_str_radix16(src) ==
    IF unsigned_digits(src) = <<>> THEN ParseIntError
    ELSE u32_from_hex_digits(unsigned_digits(src), 1, u32(0, 0))

\* slice::split: the pieces of data between the bytes equal to sep
RECURSIVE slice_split(_, _, _, _)
slice_split(data, sep, i, piece) ==
    IF i > Len(data) THEN <<piece>>
    ELSE IF data[i] = sep
         THEN <<piece>> \o slice_split(data, sep, i + 1, <<>>)
         ELSE slice_split(data, sep, i + 1, Append(piece, data[i]))

\* the slice patterns [prefix.., rest @ .., b'\r'] | [prefix.., rest @ ..]:
\* what rest is bound to, for a cmd that begins with prefix
pattern_rest(cmd, prefix) ==
    IF Len(cmd) > Len(prefix) /\ cmd[Len(cmd)] = "\r"
    THEN SubSeq(cmd, Len(prefix) + 1, Len(cmd) - 1)
    ELSE SubSeq(cmd, Len(prefix) + 1, Len(cmd))

starts_with(cmd, prefix) ==
    /\ Len(cmd) >= Len(prefix)
    /\ SubSeq(cmd, 1, Len(prefix)) = prefix

\* what one match arm of feed does: hand a command to the handler, return
\* an error, or neither
Handled(cmd) == [err |-> "Ok", cmds |-> <<cmd>>]
Skipped == [err |-> "Ok", cmds |-> <<>>]
ParserError(e) == [err |-> e, cmds |-> <<>>]

\* the colour of PX x y colour
naive_color(color) ==
    IF Len(color) = 6
    THEN LET v == u32_from_str_radix16(color)
         IN  IF v.ok THEN [ok |-> TRUE, err |-> "Ok", color |-> from_rgb(v.value)]
             ELSE [ok |-> FALSE, err |-> "InvalidInteger", color |-> Bgra_default]
    ELSE IF Len(color) = 8
    THEN LET v == u32_from_str_radix16(color)
         IN  IF v.ok THEN [ok |-> TRUE, err |-> "Ok", color |-> from_argb(v.value)]
             ELSE [ok |-> FALSE, err |-> "InvalidInteger", color |-> Bgra_default]
    ELSE IF Len(color) = 2
    THEN LET v == u8_from_str_radix(color, 16)
         IN  IF v.ok THEN [ok |-> TRUE, err |-> "Ok", color |-> from_bw(v.value)]
             ELSE [ok |-> FALSE, err |-> "InvalidInteger", color |-> Bgra_default]
    ELSE [ok |-> FALSE, err |-> "InvalidColor", color |-> Bgra_default]

\* the arm of OFFSET
naive_offset(cords) ==
    LET parts == slice_split(cords, " ", 1, <<>>)
    IN  IF Len(parts) # 2 THEN ParserError("InvalidCoordinates")
        ELSE LET x == u16_from_str(parts[1])
                 y == u16_from_str(parts[2])
             IN  IF ~x.ok \/ ~y.ok THEN ParserError("InvalidInteger")
                 ELSE Handled([type |-> "Offset", x |-> x.value, y |-> y.value])

\* the arm of PX
naive_px(params) ==
    LET parts == slice_split(params, " ", 1, <<>>)
    IN  IF Len(parts) = 3
        THEN LET color == naive_color(parts[3])
                 x == u16_from_str(parts[1])
                 y == u16_from_str(parts[2])
             IN  IF ~color.ok THEN ParserError(color.err)
                 ELSE IF ~x.ok \/ ~y.ok THEN ParserError("InvalidInteger")
                 ELSE Handled([type |-> "SetPixel", x |-> x.value,
                               y |-> y.value, color |-> color.color])
        ELSE IF Len(parts) = 2
        THEN LET x == u16_from_str(parts[1])
                 y == u16_from_str(parts[2])
             IN  IF ~x.ok \/ ~y.ok THEN ParserError("InvalidInteger")
                 ELSE Handled([type |-> "GetPixel", x |-> x.value, y |-> y.value])
        ELSE ParserError("InvalidCoordinates")

\* the match of feed on one piece of the data
naive_match(cmd) ==
    IF cmd = <<>> THEN Skipped
    ELSE IF cmd \in {<<"H", "E", "L", "P">>, <<"H", "E", "L", "P", "\r">>}
    THEN Handled([type |-> "Help"])
    ELSE IF cmd \in {<<"S", "I", "Z", "E">>, <<"S", "I", "Z", "E", "\r">>}
    THEN Handled([type |-> "Size"])
    ELSE IF starts_with(cmd, <<"O", "F", "F", "S", "E", "T", " ">>)
    THEN naive_offset(pattern_rest(cmd, <<"O", "F", "F", "S", "E", "T", " ">>))
    ELSE IF starts_with(cmd, <<"P", "X", " ">>)
    THEN naive_px(pattern_rest(cmd, <<"P", "X", " ">>))
    ELSE ParserError("UnknownCommand")

\* the loop of feed over the pieces: the commands handed to the handler and
\* the error that ended the loop, "Ok" when it ran to the end
RECURSIVE feed_loop(_, _, _)
feed_loop(pieces, i, handled) ==
    IF i > Len(pieces) THEN [err |-> "Ok", cmds |-> handled]
    ELSE LET res == naive_match(pieces[i])
         IN  IF res.err # "Ok" THEN [err |-> res.err, cmds |-> handled]
             ELSE feed_loop(pieces, i + 1, handled \o res.cmds)

\* NaiveParser::feed with a handler that records the commands and returns Ok
feed(data) == feed_loop(slice_split(data, "\n", 1, <<>>), 1, <<>>)
----------------------------------------------------------------------------
(* SpecNaive: NaiveParser::feed applied to command lines with either line  *)
(* ending, and to data that is not one valid command                       *)

NaiveCoords == {0, 69, 420, 65535}

NaiveColours ==
    {<<"f", "f">>, <<"0", "A">>,
     <<"1", "1", "4", "4", "e", "e">>, <<"A", "b", "0", "0", "9", "F">>,
     <<"c", "c", "1", "1", "4", "4", "e", "e">>,
     <<"0", "0", "0", "0", "0", "0", "0", "0">>,
     <<"f", "f", "F", "F", "8", "0", "0", "1">>}

\* the valid commands: the verb, the coordinates and the colour's digits
NaiveCommands ==
    {[type |-> t, x |-> 0, y |-> 0, digits |-> <<>>] : t \in {"Help", "Size"}}
    \cup {[type |-> t, x |-> x, y |-> y, digits |-> <<>>] :
             t \in {"Offset", "GetPixel"}, x \in NaiveCoords, y \in NaiveCoords}
    \cup {[type |-> "SetPixel", x |-> x, y |-> y, digits |-> d] :
             x \in NaiveCoords, y \in NaiveCoords, d \in NaiveColours}

LineEndings == {<<"\n">>, <<"\r", "\n">>}

\* the line of a command, without its ending
NaiveLine(c) ==
    CASE c.type = "Help" -> <<"H", "E", "L", "P">>
      [] c.type = "Size" -> <<"S", "I", "Z", "E">>
      [] c.type = "Offset" ->
            <<"O", "F", "F", "S", "E", "T", " ">> \o Dec(c.x) \o <<" ">>
               \o Dec(c.y)
      [] c.type = "GetPixel" ->
            <<"P", "X", " ">> \o Dec(c.x) \o <<" ">> \o Dec(c.y)
      [] c.type = "SetPixel" ->
            <<"P", "X", " ">> \o Dec(c.x) \o <<" ">> \o Dec(c.y) \o <<" ">>
               \o c.digits

\* the byte written as the two hex digits at i and i + 1
HexByte(d, i) == 16 * hex_lookup(d[i]) + hex_lookup(d[i + 1])

\* the colour a line's digits stand for: bw, rrggbb or aarrggbb
NaiveColour(d) ==
    CASE Len(d) = 2 ->
            [r |-> HexByte(d, 1), g |-> HexByte(d, 1), b |-> HexByte(d, 1),
             a |-> 255]
      [] Len(d) = 6 ->
            [r |-> HexByte(d, 1), g |-> HexByte(d, 3), b |-> HexByte(d, 5),
             a |-> 255]
      [] Len(d) = 8 ->
            [a |-> HexByte(d, 1), r |-> HexByte(d, 3), g |-> HexByte(d, 5),
             b |-> HexByte(d, 7)]

\* the Command a valid line stands for
NaiveCommand(c) ==
    CASE c.type \in {"Help", "Size"} -> [type |-> c.type]
      [] c.type \in {"Offset", "GetPixel"} ->
            [type |-> c.type, x |-> c.x, y |-> c.y]
      [] c.type = "SetPixel" ->
            [type |-> "SetPixel", x |-> c.x, y |-> c.y,
             color |-> NaiveColour(c.digits)]

\* data that is not one valid command
NaiveOther ==
    {<<>>, <<"\n">>, <<"\r", "\n">>,
     <<"H", "E", "L", "P", "\n", "S", "I", "Z", "E", "\r", "\n">>,
     <<"H", "E", "L", "P", "\r", "\r", "\n">>,
     <<"h", "e", "l", "p", "\n">>,
     <<"P", "X", "\n">>,
     <<"P", "X", " ", "1", "\n">>,
     <<"P", "X", " ", "1", " ", " ", "2", "\n">>,
     <<"P", "X", " ", "1", " ", "2", " ", "\r", "\n">>,
     <<"P", "X", " ", "1", " ", "2", " ", "f", "f", "f", "\n">>,
     <<"P", "X", " ", "1", " ", "2", " ", "g", "g", "\n">>,
     <<"P", "X", " ", "+", "1", " ", "2", "\n">>,
     <<"P", "X", " ", "-", "1", " ", "2", "\n">>,
     <<"P", "X", " ", "6", "5", "5", "3", "6", " ", "0", "\n">>,
     <<"P", "X", " ", "a", " ", "0", "\n">>,
     <<"O", "F", "F", "S", "E", "T", " ", "1", " ", "2", " ", "3", "\n">>,
     <<"O", "F", "F", "S", "E", "T", " ", "\r", "\n">>,
     <<"S", "I", "Z", "E", "\n", "P", "X", " ", "1", "\n", "H", "E", "L",
       "P", "\n">>}

NotFed == [kind |-> "none", cmd |-> [type |-> "Help"], ending |-> <<>>,
           data |-> <<>>, result |-> [err |-> "Ok", cmds |-> <<>>]]

InitNaive ==
    /\ naive = NotFed
    /\ canvas = Unused /\ access = Unused
    /\ conns = Unused /\ log = Unused /\ batch = Unused
    /\ ring = Unused /\ pending = Unused /\ fed = Unused /\ start = Unused
    /\ cmds = Unused /\ last = Unused /\ resumed = Unused
    /\ bytewise = Unused /\ pc = Unused /\ UsersUnused /\ CoordUnused
    /\ RegionUnused /\ RaceUnused

NaiveFrame ==
    UNCHANGED <<ringVars, canvas, connVars, access, userVars, coordVars,
                region, race>>

\* feed on one valid command with one of the line endings
FeedLine ==
    /\ \E c \in NaiveCommands, ending \in LineEndings :
       \E res \in {feed(NaiveLine(c) \o ending)} :
          naive' = [kind |-> "line", cmd |-> c, ending |-> ending,
                    data |-> NaiveLine(c) \o ending, result |-> res]
    /\ NaiveFrame

\* feed on other data
FeedOther ==
    /\ \E data \in NaiveOther :
       \E res \in {feed(data)} :
          naive' = [kind |-> "other", cmd |-> NotFed.cmd, ending |-> <<>>,
                    data |-> data, result |-> res]
    /\ NaiveFrame

NextNaive == FeedLine \/ FeedOther

SpecNaive == InitNaive /\ [][NextNaive]_vars

----------------------------------------------------------------------------
(* Claims about NaiveParser, checked under SpecNaive *)

\* the line ending feed was not given
OtherEnding(ending) == CHOOSE e \in LineEndings : e # ending

\* C25: for every valid command (HELP, SIZE, OFFSET x y, PX x y, PX x y
\* colour with 2, 6 or 8 hex digits) feed returns Ok and hands the handler
\* the command the line stands for, an 8-digit colour read as aarrggbb, and
\* the same line with the other ending ("\n" for "\r\n") gives the same
C25_LineEndings ==
    naive.kind = "line" =>
       /\ naive.result = [err |-> "Ok", cmds |-> <<NaiveCommand(naive.cmd)>>]
       /\ feed(NaiveLine(naive.cmd) \o OtherEnding(naive.ending))
             = naive.result

C25_Witness ==
    /\ naive.kind = "line"
    /\ naive.data = <<"P", "X", " ", "4", "2", "0", " ", "6", "9", " ",
                      "c", "c", "1", "1", "4", "4", "e", "e", "\r", "\n">>
    /\ naive.result.err = "Ok"
    /\ naive.result.cmds[1].color = [a |-> 204, r |-> 17, g |-> 68, b |-> 238]
----------------------------------------------------------------------------
(* Further claims on SpecRing *)

\* the bytes written into the ring that no returned command has consumed
Buffered == Len(fed) - EndOfLine(fed, Len(cmds), 1)

\* C26 (byte count): after any sequence of advance_write(k) with k within
\* the contig_write() window, successful command reads and MoreDataRequired
\* rollbacks, available_to_read() lies in 0..C and equals the bytes written
\* minus the bytes consumed by the commands returned; with read == write it
\* is 0 exactly when the ring is empty and C exactly when it is full.
C26_ByteCount ==
    pc # "closed" =>
        /\ available_to_read(ring) \in 0..ring.len
        /\ available_to_read(ring) = Buffered
        /\ ring.read = ring.write =>
              /\ available_to_read(ring) = 0 <=> Buffered = 0
              /\ available_to_read(ring) = ring.len <=> Buffered = ring.len

\* the smaller of two numbers
Smaller(a, b) == IF a < b THEN a ELSE b

\* C27 (safe write window): in every reachable ring state the n bytes that
\* contig_write() offers from write on lie inside the buffer without
\* wrapping and hold no unconsumed byte (n <= C - available_to_read(), and
\* n is within the room the unconsumed bytes leave), n is the longest such
\* span, and n is 0 only when the ring is full.
C27_SafeWriteWindow ==
    pc # "closed" =>
        LET n == contig_write(ring)
        IN  /\ ring.write + n <= ring.len
            /\ n <= ring.len - available_to_read(ring)
            /\ n <= ring.len - Buffered
            /\ n = Smaller(ring.len - ring.write, ring.len - Buffered)
            /\ n = 0 => Buffered = ring.len

\* the k-th line of the bytes B, with its line feed
LineOf(B, k) == SubSeq(B, EndOfLine(B, k - 1, 1) + 1, EndOfLine(B, k, 1))

DecimalDigits == {"0", "1", "2", "3", "4", "5", "6", "7", "8", "9"}

ColourDigits ==
    DecimalDigits \cup {"a", "b", "c", "d", "e", "f",
                        "A", "B", "C", "D", "E", "F"}

\* the index of the first byte of B, from i on, that is not in S
RECURSIVE SkipWhile(_, _, _)
SkipWhile(B, i, S) ==
    IF i > Len(B) THEN i
    ELSE IF B[i] \in S THEN SkipWhile(B, i + 1, S) ELSE i

\* SP uint32 SP uint32 from index i of B: the index after the second
\* number, or 0 if B does not continue so
CoordinatesEnd(B, i) ==
    LET x == SkipWhile(B, i, {" "})
        sp == SkipWhile(B, x, DecimalDigits)
        y == SkipWhile(B, sp, {" "})
        end == SkipWhile(B, y, DecimalDigits)
    IN  IF x > i /\ sp > x /\ y > sp /\ end > y THEN end ELSE 0

\* LF, or for PX also SP hexcolor LF, from index i to the end of B
SentenceEnd(B, i, colour) ==
    \/ i = Len(B) /\ B[i] = "\n"
    \/ /\ colour
       /\ i < Len(B) /\ B[i] = " " /\ B[Len(B)] = "\n"
       /\ Len(B) - 1 - i \in {2, 6, 8}
       /\ \A j \in (i + 1)..(Len(B) - 1) : B[j] \in ColourDigits

\* B is a sentence of the command grammar
IsSentence(B) ==
    \/ B \in {HELP_VERB, SIZE_VERB}
    \/ /\ starts_with(B, <<"P", "X">>)
       /\ CoordinatesEnd(B, 3) # 0
       /\ SentenceEnd(B, CoordinatesEnd(B, 3), TRUE)
    \/ /\ starts_with(B, <<"O", "F", "F", "S", "E", "T">>)
       /\ CoordinatesEnd(B, 7) # 0
       /\ SentenceEnd(B, CoordinatesEnd(B, 7), FALSE)

\* C28 (grammar conformance): every line for which read_next_command
\* returned a command is a sentence of the command grammar: PX and OFFSET
\* are followed by at least one space, each coordinate field has at least
\* one digit and the line ends with LF ("PX1 2\n" and "PX 1 \n" give no
\* command).
C28_GrammarConformance ==
    Fits(fed) =>
        \A k \in 1..Len(cmds) : IsSentence(LineOf(fed, k))

\* the index of the first byte of B, from i on, that is in S
RECURSIVE SkipUntil(_, _, _)
SkipUntil(B, i, S) ==
    IF i > Len(B) THEN i
    ELSE IF B[i] \in S THEN i ELSE SkipUntil(B, i + 1, S)

\* a byte of B in i..(j - 1) is not an ASCII digit
BadDigitIn(B, i, j) == \E n \in i..(j - 1) : B[n] \notin DecimalDigits

\* the x or y field that follows the verb of B holds, before its
\* terminator (one of yterm for y), a byte that is not an ASCII digit
BadField(B, verb, yterm) ==
    LET x == SkipWhile(B, Len(verb) + 1, {" "})
        xend == SkipUntil(B, x, {" "})
        y == SkipWhile(B, xend, {" "})
        yend == SkipUntil(B, y, yterm)
    IN  BadDigitIn(B, x, xend) \/ BadDigitIn(B, y, yend)

\* B is a PX or OFFSET line with such a byte
HasBadDigit(B) ==
    \/ starts_with(B, <<"P", "X">>) /\ BadField(B, <<"P", "X">>, {" ", "\n"})
    \/ /\ starts_with(B, <<"O", "F", "F", "S", "E", "T">>)
       /\ BadField(B, <<"O", "F", "F", "S", "E", "T">>, {"\n"})

\* the line after the commands returned so far has been written whole
NextLineWritten ==
    /\ EndOfLine(fed, Len(cmds), 1) < EndOfLine(fed, Len(cmds) + 1, 1)
    /\ fed[EndOfLine(fed, Len(cmds) + 1, 1)] = "\n"

\* C29 (bad decimal digit): a PX or OFFSET line whose x or y field holds a
\* byte that is not '0'..'9' before the field's terminator ('a'..'f',
\* 'A'..'F', '\r') gives no command: read_next_command returns
\* InvalidDecimalDigit and the parse loop ends with the connection closed.
C29_BadDecimalDigit ==
    Fits(fed) =>
        /\ \A k \in 1..Len(cmds) : ~HasBadDigit(LineOf(fed, k))
        /\ (/\ pc # "parse" /\ NextLineWritten
            /\ HasBadDigit(LineOf(fed, Len(cmds) + 1))) =>
              /\ last = "InvalidDecimalDigit"
              /\ pc = "closed"
----------------------------------------------------------------------------
(* Further claims on SpecShutdown *)

\* the ring fds the NewClient payloads were sent to, in the order sent
RECURSIVE DispatchedTo(_, _)
DispatchedTo(handled, i) ==
    IF i > Len(handled) THEN <<>>
    ELSE (IF handled[i].sent THEN <<handled[i].fd>> ELSE <<>>)
            \o DispatchedTo(handled, i + 1)

C30_WitnessLost ==
    \E i \in 1..(Len(hist.handled) - 1) :
        ~hist.handled[i].sent /\ hist.handled[i + 1].sent

\* listening socket s has an accept armed: in flight in the kernel or pushed
\* for the next submit, or the completion that ended its stream is still
\* waiting for the empress to handle it
AcceptArmed(s) ==
    \/ kernel.accept[s] # NoData
    \/ run[Empress].phase = "new"
    \/ \E i \in 1..Len(uring[Empress].sq) :
          /\ uring[Empress].sq[i].op = "AcceptMulti"
          /\ uring[Empress].sq[i].fd = s
    \/ \E i \in 1..Len(uring[Empress].cq) :
          /\ uring[Empress].cq[i].user_data
                = UserData_coordination("NewConnection", s)
          /\ ~uring[Empress].cq[i].more

\* C31 (accept stays armed): when an accept completion ends the multi-shot
\* stream of a listening socket (IORING_CQE_F_MORE not set) the empress
\* submits a new AcceptMulti, so until shutdown both listening sockets
\* always have an accept armed.
C31_AcceptStaysArmed ==
    (/\ proc = "running"
     /\ run[Empress].phase \in {"new", "ring_loop"}
     /\ hist.signals_handled = 0) =>
        \A s \in 1..Len(ListenSockets) : AcceptArmed(s)

\* the ring a payload was submitted on or delivered to
PayloadOf(ud, r) ==
    CASE ud.kind \in {"NewConnection", "Signal"} -> r = Empress
      [] ud.kind = "NewClient" -> hist.delivered[ud.n] = <<r>>
      [] ud.kind = "Connection" -> socks[ud.n].ring = r
      [] OTHER -> ud.n = r

\* no payload of ring r is left anywhere: allocated, in flight in the
\* kernel, unhandled in the completion queue or pushed and not submitted
NothingLeft(r) ==
    /\ \A ud \in DOMAIN heap : PayloadOf(ud, r) => heap[ud] = "freed"
    /\ CancelledOps(kernel, r) = <<>>
    /\ \A i \in 1..Len(uring[r].cq) : uring[r].cq[i].user_data = NoData
    /\ uring[r].sq = <<>>

\* C32 (teardown destroys every payload): when Ring::run has returned after
\* Exit, every payload submitted on that ring or delivered to it by MsgRing
\* has been destroyed, exactly once: none is left in flight, unhandled in
\* the completion queue or unsubmitted, and none was freed twice.
C32_TeardownDestroysAll ==
    \A r \in Rings :
        (run[r].phase = "returned" /\ hist.exits[r] > 0) =>
            NothingLeft(r) /\ hist.faults = {}
----------------------------------------------------------------------------
(* wellenbrecher-canvas: the sizes Canvas::open computes.  A number is the *)
(* sequence of its base-256 digits, lowest first, so that u32 and usize    *)
(* arithmetic keeps its width and the exact values can be written down.    *)

\* let header_size = 2 * std::mem::size_of::<u32>()
header_size == 8
\* std::mem::size_of::<Bgra>() and std::mem::size_of::<UserID>()
size_of_Bgra == 4
size_of_UserID == 4

\* the digits of a, extended or cut to n digits
Resize(a, n) == [i \in 1..n |-> IF i <= Len(a) THEN a[i] ELSE 0]

\* a number below 256 as n digits
Small(v, n) == Resize(<<v>>, n)

\* the sum of a[i] * b[k + 1 - i] over the i from i on
RECURSIVE column_sum(_, _, _, _)
column_sum(a, b, k, i) ==
    IF i > Len(a) THEN 0
    ELSE (IF k + 1 - i \in 1..Len(b) THEN a[i] * b[k + 1 - i] ELSE 0)
            + column_sum(a, b, k, i + 1)

\* the digits of the columns cols from i on, with carry carried in
RECURSIVE carry_over(_, _, _)
carry_over(cols, i, carry) ==
    IF i > Len(cols) THEN <<>>
    ELSE <<(cols[i] + carry) % 256>>
            \o carry_over(cols, i + 1, (cols[i] + carry) \div 256)

\* the exact product, Len(a) + Len(b) digits
mul_exact(a, b) ==
    carry_over([k \in 1..(Len(a) + Len(b)) |-> column_sum(a, b, k, 1)], 1, 0)

\* the exact sum, one digit more than the longer operand
add_exact(a, b) ==
    LET n == (IF Len(a) > Len(b) THEN Len(a) ELSE Len(b)) + 1
    IN  carry_over([k \in 1..n |-> Resize(a, n)[k] + Resize(b, n)[k]], 1, 0)

\* a * b on u32: with overflow checks (a debug build) the product that does
\* not fit panics, without them (a release build) it wraps
u32_mul(a, b, overflow_checks) ==
    LET exact == mul_exact(a, b)
        fits == \A i \in 5..8 : exact[i] = 0
    IN  [panic |-> overflow_checks /\ ~fits, value |-> Resize(exact, 4)]

\* a * b and a + b on usize, for operands that cannot overflow 64 bits
usize_mul(a, b) == Resize(mul_exact(a, b), 8)
usize_add(a, b) == Resize(add_exact(a, b), 8)

\* Canvas::open: canvas_size, uid_map_size, size and the offset of
\* user_id_map from the start of the region
open_sizes(width, height, overflow_checks) ==
    LET area == u32_mul(width, height, overflow_checks)
        canvas_size == usize_mul(Resize(area.value, 8), Small(size_of_Bgra, 1))
        uid_map_size ==
            usize_mul(Resize(area.value, 8), Small(size_of_UserID, 1))
        size == usize_add(usize_add(Small(header_size, 8), canvas_size),
                          uid_map_size)
    IN  [panic |-> area.panic, size |-> size,
         user_id_map |-> usize_add(Small(header_size, 8), canvas_size)]

----------------------------------------------------------------------------
(* SpecRegion: Canvas::open asked for a width and a height, in a build     *)
(* with or without overflow checks                                         *)

\* 1, 2, 3, 720, 1280, 65535, 65536, 2^31 and 2^32 - 1
Dimensions ==
    {<<1, 0, 0, 0>>, <<2, 0, 0, 0>>, <<3, 0, 0, 0>>, <<208, 2, 0, 0>>,
     <<0, 5, 0, 0>>, <<255, 255, 0, 0>>, <<0, 0, 1, 0>>, <<0, 0, 0, 128>>,
     <<255, 255, 255, 255>>}

NotOpened ==
    [opened |-> FALSE, width |-> <<1, 0, 0, 0>>, height |-> <<1, 0, 0, 0>>,
     overflow_checks |-> FALSE,
     sizes |-> open_sizes(<<1, 0, 0, 0>>, <<1, 0, 0, 0>>, FALSE)]

InitRegion ==
    /\ region = NotOpened
    /\ canvas = Unused /\ access = Unused
    /\ conns = Unused /\ log = Unused /\ batch = Unused
    /\ ring = Unused /\ pending = Unused /\ fed = Unused /\ start = Unused
    /\ cmds = Unused /\ last = Unused /\ resumed = Unused
    /\ bytewise = Unused /\ pc = Unused /\ UsersUnused /\ CoordUnused
    /\ NaiveUnused /\ RaceUnused

\* Canvas::open(.., Some(CanvasCreateInfo { width, height, .. }))
CanvasOpen ==
    /\ \E width \in Dimensions, height \in Dimensions,
          overflow_checks \in BOOLEAN :
       \E res \in {open_sizes(width, height, overflow_checks)} :
          region' = [opened |-> TRUE, width |-> width, height |-> height,
                     overflow_checks |-> overflow_checks, sizes |-> res]
    /\ UNCHANGED <<ringVars, canvas, connVars, access, userVars, coordVars,
                   naiveVars, race>>

NextRegion == CanvasOpen

SpecRegion == InitRegion /\ [][NextRegion]_vars

----------------------------------------------------------------------------
(* Claims about Canvas::open, checked under SpecRegion *)

\* 8 + width * height * n, exact, as 10 digits
ExactOffset(width, height, n) ==
    Resize(add_exact(Small(8, 1),
                     mul_exact(mul_exact(width, height), Small(n, 1))), 10)

\* C33 (region size): for every width >= 1 and height >= 1 representable
\* as u32 the size Canvas::open requests for the shared region is
\* 8 + width * height * 8, computed without wrap-around, and the owner map
\* starts at byte offset 8 + width * height * 4.
C33_RegionSize ==
    region.opened =>
        /\ ~region.sizes.panic
        /\ Resize(region.sizes.size, 10)
              = ExactOffset(region.width, region.height, 8)
        /\ Resize(region.sizes.user_id_map, 10)
              = ExactOffset(region.width, region.height, 4)
----------------------------------------------------------------------------
(* Further claims about the canvas, checked under SpecCanvas *)

Between(v, a, b) == (a <= v /\ v <= b) \/ (b <= v /\ v <= a)

\* one channel blended on its own: previous + (((written - previous)
\* saturating at 0) * alpha) >> 8
ChannelAlone(previous, written, alpha) ==
    previous + (saturating_sub(written, previous) * alpha) \div 256

BlendedInBounds ==
    /\ access.op = "set_pixel" /\ access.err = "Ok"
    /\ access.color.a > 0 /\ access.color.a < 255

\* C34 (alpha blend): for every in-bounds pixel and every written colour
\* with 0 < alpha < 255, after set_pixel the stored alpha is 0xFF, the stored
\* owner is the writer's UserID, and each stored R, G and B channel lies
\* between the pixel's previous value of the channel and the written
\* colour's, inclusive, and is computed from that channel alone, without
\* carry or borrow between channels.
C34_AlphaBlend ==
    BlendedInBounds =>
        LET idx == coords_to_index(canvas, access.x, access.y)
            previous == access.before.data[idx]
            stored == canvas.data[idx]
            written == access.color
        IN  /\ stored.a = 255
            /\ canvas.user_id_map[idx] = access.user
            /\ Between(stored.r, previous.r, written.r)
            /\ Between(stored.g, previous.g, written.g)
            /\ Between(stored.b, previous.b, written.b)
            /\ stored.r = ChannelAlone(previous.r, written.r, written.a)
            /\ stored.g = ChannelAlone(previous.g, written.g, written.a)
            /\ stored.b = ChannelAlone(previous.b, written.b, written.a)
----------------------------------------------------------------------------
(* SpecRace: two rings inside set_pixel on one in-bounds pixel, each with  *)
(* an opaque colour.  The stores of set_pixel are plain ptr::write calls   *)
(* on shared memory and race.  UserID is a u32 and is stored as one word;  *)
(* Bgra is a repr(C) struct of four u8 with alignment 1, which a build may *)
(* store as one word or byte by byte (b, g, r, a in memory order).         *)

Racers == {1, 2}

RaceColours ==
    {from_rgb(u32(10, 11 * 256 + 12)), from_rgb(u32(255, 128 * 256 + 64))}

RaceUsers == {1, 2}

BgraFields == <<"b", "g", "r", "a">>

InitRace ==
    /\ \E byte_stores \in BOOLEAN :
       \E colors \in [Racers -> RaceColours], user_ids \in [Racers -> RaceUsers] :
          race = [byte_stores |-> byte_stores,
                  data |-> Bgra_default, user_id_map |-> 0,
                  w |-> [i \in Racers |->
                            [pc |-> "pixel", stored |-> 0,
                             color |-> colors[i], user_id |-> user_ids[i]]]]
    /\ canvas = Unused /\ access = Unused
    /\ conns = Unused /\ log = Unused /\ batch = Unused
    /\ ring = Unused /\ pending = Unused /\ fed = Unused /\ start = Unused
    /\ cmds = Unused /\ last = Unused /\ resumed = Unused
    /\ bytewise = Unused /\ pc = Unused /\ UsersUnused /\ CoordUnused
    /\ NaiveUnused /\ RegionUnused

RaceFrame ==
    UNCHANGED <<ringVars, canvas, connVars, access, userVars, coordVars,
                naiveVars, region>>

\* set_pixel, the 255 arm: self.data.add(idx).write(color) as one store
RaceWritePixel(i) ==
    /\ race.w[i].pc = "pixel" /\ ~race.byte_stores
    /\ race.w[i].color.a = 255
    /\ race' = [race EXCEPT !.data = race.w[i].color, !.w[i].pc = "owner"]
    /\ RaceFrame

\* self.data.add(idx).write(color), one of its four byte stores
RaceWritePixelByte(i) ==
    /\ race.w[i].pc = "pixel" /\ race.byte_stores
    /\ race.w[i].color.a = 255
    /\ \E f \in {BgraFields[race.w[i].stored + 1]} :
          race' = [race EXCEPT
                     !.data[f] = race.w[i].color[f],
                     !.w[i].stored = (@ + 1) % Len(BgraFields),
                     !.w[i].pc = IF race.w[i].stored + 1 = Len(BgraFields)
                                 THEN "owner" ELSE "pixel"]
    /\ RaceFrame

\* self.user_id_map.add(idx).write(user_id); Ok(())
RaceWriteUser(i) ==
    /\ race.w[i].pc = "owner"
    /\ race' = [race EXCEPT !.user_id_map = race.w[i].user_id,
                            !.w[i].pc = "returned"]
    /\ RaceFrame

NextRace ==
    \E i \in Racers :
        RaceWritePixel(i) \/ RaceWritePixelByte(i) \/ RaceWriteUser(i)

SpecRace == InitRace /\ [][NextRace]_vars

----------------------------------------------------------------------------
(* Claims about racing set_pixel calls, checked under SpecRace *)

BothReturned == \A i \in Racers : race.w[i].pc = "returned"

----------------------------------------------------------------------------
(* Claims about unknown verbs, checked under SpecRing *)

Verbs == {PX_VERB, SIZE_VERB, HELP_VERB, OFFSET_VERB}

BeginsWithNoVerb(line) == \A verb \in Verbs : ~starts_with(line, verb)

\* the ring holds, at its read pointer, a whole line that begins with no verb
UnknownLineBuffered ==
    /\ Fits(fed) /\ NextLineWritten
    /\ BeginsWithNoVerb(LineOf(fed, Len(cmds) + 1))

\* C36 (unknown verb is detected): once the ring holds a complete
\* LF-terminated line that begins with none of PX, SIZE\n, HELP\n, OFFSET,
\* read_next_command returns UnknownVerb without needing further input,
\* whatever the line's length ("A\n" too); it does not answer
\* MoreDataRequired for such a line.
C36_UnknownVerbDetected ==
    UnknownLineBuffered => read_next_command(ring).err = "UnknownVerb"
----------------------------------------------------------------------------
(* Claims about a connection's Read, checked under SpecConn *)

ReadsPushed == SelectSeq(batch.pushed, LAMBDA e : e.op = "Read")

Pointers(r) == <<r.read, r.write, r.last_op>>

\* a live connection has its Read in flight, over the contig_write window
\* of its ring; a handler that left its connection alive pushed that Read
\* and no other; a connection that is not live has none
C37_ReadOutstanding ==
    /\ \A c \in Conns :
          IF conns[c].state = "open"
          THEN /\ conns[c].inflight
               /\ conns[c].window = contig_write(conns[c].command_ring)
          ELSE ~conns[c].inflight
    /\ (batch.kind \in {"NewClient", "read"} /\ conns[batch.fd].state = "open")
          => ReadsPushed = <<Read(batch.fd, conns[batch.fd].window)>>
    /\ (batch.kind \in {"NewClient", "read"} /\ conns[batch.fd].state # "open")
          => ReadsPushed = <<>>

\* the pointers of a ring with a Read in flight change only in the handler
\* of that Read's completion
C37_PointersKept ==
    \A c \in Conns :
        (conns[c].inflight
            /\ Pointers(conns'[c].command_ring) # Pointers(conns[c].command_ring))
        => (batch'.kind = "read" /\ batch'.fd = c)

\* C37 (one read in flight): every live connection has exactly one Read
\* outstanding at any time (submitted at intake and re-submitted once per
\* positive read completion), its target window is the contig_write()
\* window of that moment, and the connection's CommandRing pointers are not
\* changed while that Read is in flight.
C37_OneReadInFlight == [](C37_ReadOutstanding) /\ [][C37_PointersKept]_vars

\* a read completion whose commands moved the ring's pointers left the
\* connection alive with its next Read in flight
C37_Witness ==
    /\ batch.kind = "read" /\ conns[batch.fd].state = "open"
    /\ batch.done # <<>>
    /\ conns[batch.fd].command_ring.read # 0
    /\ conns[batch.fd].inflight
    /\ conns[batch.fd].window = contig_write(conns[batch.fd].command_ring)
    /\ conns[batch.fd].window < MaxRingLen
----------------------------------------------------------------------------
(* Claims about the two parsers, checked under SpecNaive *)

\* the commands the CommandRing parser returns for data written whole into
\* an empty ring
RingCommands(data) == WholeRun(MaxRingLen, 0, data).cmds

\* C38 (parser agreement): for every LF-terminated valid command whose
\* coordinates are below 65536 the streaming CommandRing parser and the
\* NaiveParser produce the same command with the same coordinates and the
\* same colour channels (r, g, b, a), for 2-, 6- and 8-digit colours.
C38_ParserAgreement ==
    (naive.kind = "line" /\ naive.ending = <<"\n">>) =>
        /\ naive.result.err = "Ok"
        /\ RingCommands(naive.data) = naive.result.cmds
----------------------------------------------------------------------------
(* Claims about the coordinates' values, checked under SpecRing *)

\* a digit string without its leading zeros ("0" for zero)
Canonical(digits) ==
    LET first == SkipWhile(digits, 1, {"0"})
    IN  SubSeq(digits, IF first > Len(digits) THEN Len(digits) ELSE first,
               Len(digits))

\* the x and y fields of line B, whose verb has n bytes, taken as the
\* longest runs of ASCII digits where the fields begin
FieldsOf(B, n) ==
    LET x == SkipWhile(B, n + 1, {" "})
        xend == SkipWhile(B, x, DecimalDigits)
        y == SkipWhile(B, xend, {" "})
        yend == SkipWhile(B, y, DecimalDigits)
    IN  [x |-> SubSeq(B, x, xend - 1), y |-> SubSeq(B, y, yend - 1),
         decimal |-> /\ xend > x /\ yend > y
                     /\ B[xend] = " " /\ B[yend] \in {" ", "\n"}]

VerbLen(cmd) == IF cmd.type = "Offset" THEN Len(OFFSET_VERB) ELSE Len(PX_VERB)

\* C39 (no silent wrap of coordinates): for every decimal digit string in
\* an x or y field the parsed u32 equals the number the digits denote, or
\* the command is rejected; a digit string denoting a value above 2^32 - 1
\* never yields a command whose coordinate is that value modulo 2^32.
C39_NoSilentWrap ==
    Fits(fed) =>
        \A k \in 1..Len(cmds) :
            (cmds[k].type \in {"GetPixel", "SetPixel", "Offset"}
                /\ FieldsOf(LineOf(fed, k), VerbLen(cmds[k])).decimal)
            => LET fields == FieldsOf(LineOf(fed, k), VerbLen(cmds[k]))
               IN  /\ Dec(cmds[k].x) = Canonical(fields.x)
                   /\ Dec(cmds[k].y) = Canonical(fields.y)
----------------------------------------------------------------------------
(* Claims about user ids, checked under SpecUsers *)

\* the NewClient payloads in flight and the live connections
CarryingUserId ==
    {h \in 1..Len(holders) : holders[h].kind \in {"NewClient", "Connection"}}

MaskedIpOf(h) ==
    masked_ip(holders[h].ip, dispatch.ipv4_mask, dispatch.ipv6_mask)

\* C40 (UserID identifies one user): at every moment any two live
\* connections (or in-flight NewClient payloads) that carry the same user_id
\* have the same masked IP, and every assigned user_id is >= 1 (0 is never
\* assigned), after any interleaving of accepts, slot reuse and connection
\* closes.
C40_UserIdIdentifiesUser ==
    /\ \A h1 \in CarryingUserId, h2 \in CarryingUserId :
          holders[h1].uid = holders[h2].uid =>
              /\ MaskedIpOf(h1) = MaskedIpOf(h2)
              /\ users.states[holders[h1].state].ip = MaskedIpOf(h1)
              /\ users.states[holders[h2].state].ip = MaskedIpOf(h1)
    /\ \A h \in 1..Len(holders) : holders[h].uid >= 1
    /\ dispatch.stage = "got" => dispatch.uid >= 1

\* a slot was re-used: a closed connection of one user had the id that two
\* live holders from different addresses of another user's prefix carry now
C40_Witness ==
    \E h1 \in 1..Len(holders) : \E h2 \in CarryingUserId, h3 \in CarryingUserId :
        /\ holders[h1].kind = "dropped"
        /\ holders[h1].uid = holders[h2].uid
        /\ holders[h2].uid = holders[h3].uid
        /\ MaskedIpOf(h1) # MaskedIpOf(h2)
        /\ holders[h2].ip # holders[h3].ip

====
